---------------------------- MODULE Spec2Model ----------------------------
(***************************************************************************)
(* go-micro service composition layer: the configuration record built by   *)
(* option mutators (options.go), and the service lifecycle controller      *)
(* (service.go: Init / Start / Stop / Run).                                 *)
(*                                                                         *)
(* Hooks, the delegate server and the profiler are external code: each     *)
(* call to one of them returns nil or an error, chosen when it is called.  *)
(* The error a callee returns is identified by the callee: Err(ev, id).    *)
(***************************************************************************)
EXTENDS Integers, Sequences, FiniteSets, TLC

\* ------------------------------------------------------------- bounds
\* total number of hooks registered on one service
MaxHooks == 3
\* OS signals delivered to the process during one top-level call
MaxSignals == 2
\* Init calls made on one instance (SpecInit)
MaxInits == 3
\* mutators passed to Init over all calls (SpecInit)
MaxOpts == 2
\* mutators passed to NewService and Init over one construction (SpecOpts)
MaxBuild == 2
\* wrappers given to one WrapClient option (SpecWrap)
MaxWrap == 3

VARIABLES
    opts,          \* service.opts: the configuration record
    serverName,    \* Server.Options().Name of each server instance
    serverUp,      \* the delegate server has been started and not stopped
    ctxDone,       \* the cancellable context has been cancelled
    call,          \* the top-level method the caller thread is in
    pc,            \* position of the caller thread inside it
    i,             \* index of the next hook in the running hook loop
    gerr,          \* service.Stop's local gerr
    log,           \* calls made by the current top-level call, in order
    startRet,      \* what service.Start returned
    stopRet,       \* what service.Stop returned
    runRet,        \* what service.Run returned
    profDeferred,  \* Run has deferred Profile.Stop
    notified,      \* Run's channel is registered with signal.Notify
    ch,            \* signals buffered in Run's channel (capacity 1)
    sigCount,      \* signals delivered during the current call
    once,          \* service.once has run
    fx,            \* the one-time side effects executed, in order
    initCalls,     \* Init calls that returned
    passed,        \* history: every mutator passed to Init, in order, with its call
    cmdAppName,    \* Cmd.App().Name of each Cmd instance
    pluginEnv,     \* strings.Split(os.Getenv("MICRO_PLUGIN"), ",")
    alive,         \* the process has not been ended by logger.Fatal
    inits,         \* Init calls the mutators made on client, server and broker
    hdlrWrappers,  \* server Options.HdlrWrappers of each server instance
    subWrappers,   \* server Options.SubWrappers of each server instance
    rpc,           \* the last operation issued through the service's client
    served,        \* the last request served through a handler wrapper
    logLevel,      \* the level the server package's logger is configured with
    thr,           \* each thread calling Init concurrently: position, mutators left
    flight,        \* each concurrent caller's operation on its way down the client
    authCall       \* the last Call made through an authWrapper

lifeVars == <<serverUp, ctxDone, call, pc, i, gerr, log, startRet, stopRet,
              runRet, profDeferred, notified, ch, sigCount>>
initVars == <<once, fx, initCalls, passed, cmdAppName, pluginEnv, alive>>
wireVars == <<inits, hdlrWrappers, subWrappers>>
wrapVars == <<rpc, served>>
concVars == <<thr, flight, authCall>>
extVars == <<wireVars, wrapVars, logLevel, concVars>>
vars == <<opts, serverName, lifeVars, initVars, extVars>>

\* ------------------------------------------------------------- values
Err(ev, id) == [ev |-> ev, id |-> id]
Nil == Err("nil", 0)
NotReturned == Err("pending", 0)

Ev(ev, id, failed) == [ev |-> ev, id |-> id, err |-> failed]

DefaultName == "go.micro.server"
DefaultServer == "DefaultServer"
DefaultCmd == "DefaultCmd"
DefaultStore == "DefaultStore"
DefaultAuth == "DefaultAuth"
DefaultBroker == "DefaultBroker"
DefaultConfig == "DefaultConfig"
DefaultRegistry == "DefaultRegistry"
DefaultRuntime == "DefaultRuntime"
DefaultTransport == "DefaultTransport"
\* a nil interface value
NilRef == "nil"
Background == "Background"
Cancellable == "ctx"
NoProfile == "nil"
Profiler == "pprof"

Servers == {DefaultServer, "server2"}
Cmds == {DefaultCmd, "cmd2"}
Names == {"svc.a", "svc.b"}

\* context.Context.Done() is closed
ContextDone(ctx) == ctx = Cancellable /\ ctxDone

RECURSIVE SelectSeqEv(_, _)
SelectSeqEv(s, ev) ==
    IF s = <<>> THEN <<>>
    ELSE IF Head(s).ev = ev THEN <<Head(s)>> \o SelectSeqEv(Tail(s), ev)
         ELSE SelectSeqEv(Tail(s), ev)

Count(s, ev) == Len(SelectSeqEv(s, ev))

\* ------------------------------------------------- options.go: mutators
\* An Option value: the mutator's name and the argument its closure captured
\* (fn: a hook, b: a boolean, v: an instance or a name).
\* ws: the wrappers of a variadic wrapper option.
Opt(op, fn, b, v) == [op |-> op, fn |-> fn, b |-> b, v |-> v, ws |-> <<>>]

OptW(op, ws) == [op |-> op, fn |-> 0, b |-> FALSE, v |-> "", ws |-> ws]

\* A client is the chain of its layers, outermost first: wrappers embed the
\* client they wrap, the last layer is the client constructed by a plugin.
Layer(kind, name) == [kind |-> kind, name |-> name]

NewClient(c) == <<Layer("client", c)>>

DefaultClient == NewClient("DefaultClient")

\* x.Init(opt(arg)) on the client, server or broker instance x
InitEv(kind, inst, opt, arg) == [kind |-> kind, inst |-> inst, opt |-> opt, arg |-> arg]

\* mutant of ClientInit: Init is called on the default client, whatever
\* client the record holds
ClientInit_OnDefault(st, opt, arg) == InitEv("client", DefaultClient, opt, arg)

ClientInit(st, opt, arg) == InitEv("client", st.o.Client, opt, arg)

ServerInit(st, opt, arg) == InitEv("server", NewClient(st.o.Server), opt, arg)

BrokerInit(st, opt, arg) == InitEv("broker", NewClient(st.o.Broker), opt, arg)

\* profile.DefaultProfile: the no-op profiler
DefaultProfile == "noop"

\* mutant of DefaultOptions: the Store default is left out
DefaultOptions_NoStore ==
    [Auth        |-> DefaultAuth,
     Broker      |-> DefaultBroker,
     Cmd         |-> DefaultCmd,
     Config      |-> DefaultConfig,
     Client      |-> DefaultClient,
     Server      |-> DefaultServer,
     Store       |-> NilRef,
     Registry    |-> DefaultRegistry,
     Runtime     |-> DefaultRuntime,
     Transport   |-> DefaultTransport,
     Profile     |-> NoProfile,
     BeforeStart |-> <<>>,
     BeforeStop  |-> <<>>,
     AfterStart  |-> <<>>,
     AfterStop   |-> <<>>,
     Context     |-> Background,
     Signal      |-> TRUE]

\* The record newOptions starts from.  st.o is the Options record, st.sn the
\* names held by the server instances (Name writes through o.Server.Init),
\* st.ini the Init calls made on subsystem instances, st.hw and st.sw the
\* wrapper lists held by the server instances.
DefaultOptions ==
    [Auth        |-> DefaultAuth,
     Broker      |-> DefaultBroker,
     Cmd         |-> DefaultCmd,
     Config      |-> DefaultConfig,
     Client      |-> DefaultClient,
     Server      |-> DefaultServer,
     Store       |-> DefaultStore,
     Registry    |-> DefaultRegistry,
     Runtime     |-> DefaultRuntime,
     Transport   |-> DefaultTransport,
     Profile     |-> NoProfile,
     BeforeStart |-> <<>>,
     BeforeStop  |-> <<>>,
     AfterStart  |-> <<>>,
     AfterStop   |-> <<>>,
     Context     |-> Background,
     Signal      |-> TRUE]

Broker(b, st) ==
    [st EXCEPT !.o.Broker = b,
               !.ini = @ \o <<ClientInit(st, "Broker", b), ServerInit(st, "Broker", b)>>]

Cmd(c, st) == [st EXCEPT !.o.Cmd = c]

\* mutant of Client: the mutator puts the two fixed decorators on the
\* client it stores
Client_Decorated(c, st) ==
    [st EXCEPT !.o.Client = <<Layer("TraceCall", st.sn[st.o.Server]),
                                Layer("FromService", st.sn[st.o.Server])>> \o c]

Client(c, st) == [st EXCEPT !.o.Client = c]

Context(ctx, st) == [st EXCEPT !.o.Context = ctx]

HandleSignal(b, st) == [st EXCEPT !.o.Signal = b]

Profile(p, st) == [st EXCEPT !.o.Profile = p]

Server(s, st) == [st EXCEPT !.o.Server = s]

Store(s, st) == [st EXCEPT !.o.Store = s]

\* mutant of Registry: the broker is not re-initialised
Registry_NoBroker(r, st) ==
    [st EXCEPT !.o.Registry = r,
               !.ini = @ \o <<ClientInit(st, "Registry", r), ServerInit(st, "Registry", r)>>]

Registry(r, st) ==
    [st EXCEPT !.o.Registry = r,
               !.ini = @ \o <<ClientInit(st, "Registry", r), ServerInit(st, "Registry", r),
                              BrokerInit(st, "Registry", r)>>]

Auth(a, st) == [st EXCEPT !.o.Auth = a]

Config(c, st) == [st EXCEPT !.o.Config = c]

Transport(t, st) ==
    [st EXCEPT !.o.Transport = t,
               !.ini = @ \o <<ClientInit(st, "Transport", t), ServerInit(st, "Transport", t)>>]

Runtime(r, st) == [st EXCEPT !.o.Runtime = r]

Name(n, st) == [st EXCEPT !.sn[st.o.Server] = n]

BeforeStart(fn, st) == [st EXCEPT !.o.BeforeStart = Append(@, fn)]

BeforeStop(fn, st) == [st EXCEPT !.o.BeforeStop = Append(@, fn)]

AfterStart(fn, st) == [st EXCEPT !.o.AfterStart = Append(@, fn)]

AfterStop(fn, st) == [st EXCEPT !.o.AfterStop = Append(@, fn)]

\* a client.Wrapper applied to a client returns a client that embeds it
Wrap(w, c) == <<Layer("wrap", w)>> \o c

\* mutant of WrapLoop: the wrappers are applied first to last
RECURSIVE WrapLoop_Forward(_, _, _)
WrapLoop_Forward(w, k, c) ==
    IF k > 0 THEN Wrap(w[k], WrapLoop_Forward(w, k - 1, c)) ELSE c

\* for i := len(w); i > 0; i-- { o.Client = w[i-1](o.Client) }
RECURSIVE WrapLoop(_, _, _)
WrapLoop(w, k, c) == IF k > 0 THEN WrapLoop(w, k - 1, Wrap(w[k], c)) ELSE c

\* mutant of WrapClient: the wrappers go around the base client, inside
\* every layer the record's client already has
WrapClient_AroundBase(w, st) ==
    [st EXCEPT !.o.Client = SubSeq(@, 1, Len(@) - 1) \o WrapLoop(w, Len(w), <<@[Len(@)]>>)]

WrapClient(w, st) == [st EXCEPT !.o.Client = WrapLoop(w, Len(w), @)]

\* mutant of WrapHandler: the wrappers are put in front of the list
WrapHandler_Prepend(w, st) == [st EXCEPT !.hw[st.o.Server] = w \o @]

\* o.Server.Init(wrappers...): server.WrapHandler appends to HdlrWrappers
WrapHandler(w, st) == [st EXCEPT !.hw[st.o.Server] = @ \o w]

\* o.Server.Init(wrappers...): server.WrapSubscriber appends to SubWrappers
WrapSubscriber(w, st) == [st EXCEPT !.sw[st.o.Server] = @ \o w]

\* o(&opt): run one mutator's closure on the record
Apply(m, st) ==
    CASE m.op = "Cmd"          -> Cmd(m.v, st)
      [] m.op = "Auth"         -> Auth(m.v, st)
      [] m.op = "Broker"       -> Broker(m.v, st)
      [] m.op = "Client"       -> Client(NewClient(m.v), st)
      [] m.op = "Config"       -> Config(m.v, st)
      [] m.op = "Server"       -> Server(m.v, st)
      [] m.op = "Store"        -> Store(m.v, st)
      [] m.op = "Registry"     -> Registry(m.v, st)
      [] m.op = "Runtime"      -> Runtime(m.v, st)
      [] m.op = "Transport"    -> Transport(m.v, st)
      [] m.op = "WrapClient"   -> WrapClient(m.ws, st)
      [] m.op = "WrapHandler"  -> WrapHandler(m.ws, st)
      [] m.op = "WrapSubscriber" -> WrapSubscriber(m.ws, st)
      [] m.op = "Context"      -> Context(m.v, st)
      [] m.op = "HandleSignal" -> HandleSignal(m.b, st)
      [] m.op = "Profile"      -> Profile(m.v, st)
      [] m.op = "Name"         -> Name(m.v, st)
      [] m.op = "BeforeStart"  -> BeforeStart(m.fn, st)
      [] m.op = "BeforeStop"   -> BeforeStop(m.fn, st)
      [] m.op = "AfterStart"   -> AfterStart(m.fn, st)
      [] m.op = "AfterStop"    -> AfterStop(m.fn, st)

\* mutant of ApplyAll: the mutators run last first
RECURSIVE ApplyAll_LastFirst(_, _)
ApplyAll_LastFirst(ms, st) ==
    IF ms = <<>> THEN st ELSE Apply(Head(ms), ApplyAll_LastFirst(Tail(ms), st))

\* for _, o := range opts { o(&opt) }
RECURSIVE ApplyAll(_, _)
ApplyAll(ms, st) ==
    IF ms = <<>> THEN st ELSE ApplyAll(Tail(ms), Apply(Head(ms), st))

\* what the process holds outside the record when newOptions runs
Fresh ==
    [sn  |-> [s \in Servers |-> DefaultName],
     ini |-> <<>>,
     hw  |-> [s \in Servers |-> <<>>],
     sw  |-> [s \in Servers |-> <<>>]]

OnRecord(o, w) == [o |-> o, sn |-> w.sn, ini |-> w.ini, hw |-> w.hw, sw |-> w.sw]

newOptions(ms) == ApplyAll(ms, OnRecord(DefaultOptions, Fresh))

\* wrapper.FromService(name, c)
FromService(name, c) == <<Layer("FromService", name)>> \o c

\* wrapper.TraceCall(name, trace.DefaultTracer, c)
TraceCall(name, c) == <<Layer("TraceCall", name)>> \o c

\* mutant of newService: the service name is read before the options run
newService_NameBeforeOptions(ms) ==
    LET st == newOptions(ms)
    IN  [st EXCEPT !.o.Client = <<Layer("TraceCall", DefaultName),
                                   Layer("FromService", DefaultName)>> \o @,
                   !.hw[st.o.Server] = @ \o <<"HandlerStats", "TraceHandler">>]

\* newService(opts...): the record of newOptions, its client wrapped by the
\* two fixed decorators, its server given the two fixed handler wrappers
newService(ms) ==
    LET st == newOptions(ms)
        serviceName == st.sn[st.o.Server]
    IN  [st EXCEPT !.o.Client = TraceCall(serviceName, FromService(serviceName, @)),
                   !.hw[st.o.Server] = @ \o <<"HandlerStats", "TraceHandler">>]

\* the record and the instances it refers to, as the variables hold them
Current ==
    [o |-> opts, sn |-> serverName, ini |-> inits, hw |-> hdlrWrappers, sw |-> subWrappers]

\* the variables hold st
Holds(st) ==
    /\ opts = st.o
    /\ serverName = st.sn
    /\ inits = st.ini
    /\ hdlrWrappers = st.hw
    /\ subWrappers = st.sw

\* --------------------------------------- util/wrapper/wrapper.go: client
\* what the innermost callee does: return nil, return an error, or panic
Panicked == Err("panic", 0)
InnerError == Err("inner", 1)
Outcomes == {Nil, InnerError, Panicked}

\* one step of an invocation as its layers see it
TrEv(ev, l, arg) == [ev |-> ev, kind |-> l.kind, name |-> l.name, arg |-> arg]

\* the layer l runs its own code around the inner invocation r
Observed(l, r) ==
    [r EXCEPT !.tr = <<TrEv("enter", l, Nil)>> \o @
                       \o IF r.ret = Panicked THEN <<>> ELSE <<TrEv("exit", l, r.ret)>>]

\* metadata of a context: a map from the header keys present to their values
FromServiceKey == "Micro-From-Service"

\* metadata.MergeContext(ctx, patch, overwrite): a key of patch already
\* present in ctx keeps its value unless overwrite
MergeContext(md, patch, overwrite) ==
    [k \in DOMAIN md \cup DOMAIN patch |->
        IF k \in DOMAIN patch /\ (overwrite \/ k \notin DOMAIN md) THEN patch[k] ELSE md[k]]

\* mutant of setHeaders: the injected headers overwrite the caller's
setHeaders_Overwrite(l, md) ==
    MergeContext(md, [k \in {FromServiceKey} |-> l.name], TRUE)

\* fromServiceWrapper.setHeaders, f.headers = {HeaderPrefix + "From-Service": name}
setHeaders(l, md) ==
    MergeContext(md, [k \in {FromServiceKey} |-> l.name], FALSE)

\* mutant of Overrides: fromServiceWrapper defines Call only
Overrides_CallOnly(kind, op) ==
    \/ kind \in {"wrap", "client"}
    \/ op = "Call"

\* the methods a layer's type defines itself; the others are promoted from
\* the embedded client.Client and run the inner client's method directly
Overrides(kind, op) ==
    \/ kind \in {"FromService", "wrap", "client"}
    \/ kind = "TraceCall" /\ op = "Call"

\* mutant of traceWrapperCall: the span is left unfinished on an error
traceWrapperCall_NoFinishOnError(l, r) ==
    [r EXCEPT !.tr = <<TrEv("enter", l, Nil), TrEv("Tracer.Start", l, Nil)>> \o @
                       \o IF r.ret = Panicked THEN <<>>
                          ELSE IF r.ret # Nil
                               THEN <<TrEv("span.error", l, r.ret), TrEv("exit", l, r.ret)>>
                               ELSE <<TrEv("Tracer.Finish", l, Nil), TrEv("exit", l, r.ret)>>]

\* traceWrapper.Call around the inner invocation r
traceWrapperCall(l, r) ==
    [r EXCEPT !.tr = <<TrEv("enter", l, Nil), TrEv("Tracer.Start", l, Nil)>> \o @
                       \o IF r.ret = Panicked THEN <<>>
                          ELSE (IF r.ret # Nil THEN <<TrEv("span.error", l, r.ret)>> ELSE <<>>)
                                 \o <<TrEv("Tracer.Finish", l, Nil), TrEv("exit", l, r.ret)>>]

\* the innermost client performs the operation
ClientDo(l, md, req, out) ==
    [tr  |-> <<TrEv("enter", l, Nil)>>
               \o IF out = Panicked THEN <<>> ELSE <<TrEv("exit", l, out)>>,
     md  |-> md,
     req |-> req,
     ret |-> out]

\* c.Call / c.Stream / c.Publish (ctx, req, ...) on the client chain c
RECURSIVE Invoke(_, _, _, _, _)
Invoke(c, op, md, req, out) ==
    LET l == Head(c) IN
    IF l.kind = "client" THEN ClientDo(l, md, req, out)
    ELSE IF ~Overrides(l.kind, op) THEN Invoke(Tail(c), op, md, req, out)
    ELSE IF l.kind = "FromService"
         THEN Observed(l, Invoke(Tail(c), op, setHeaders(l, md), req, out))
    ELSE IF l.kind = "TraceCall"
         THEN traceWrapperCall(l, Invoke(Tail(c), op, md, req, out))
    ELSE Observed(l, Invoke(Tail(c), op, md, req, out))

NoCall ==
    [op |-> "none", via |-> <<>>, md0 |-> <<>>, req0 |-> "", tr |-> <<>>,
     md |-> <<>>, req |-> "", ret |-> NotReturned]

\* -------------------------------------- util/wrapper/wrapper.go: server
\* req.Endpoint() is "Handler.Method", held as <<handler, method>>
Endpoints == {<<"Foo", "Bar">>, <<"Debug", "Health">>, <<"Debugger", "Run">>}

\* strings.HasPrefix(req.Endpoint(), "Debug.")
HasPrefixDebug(endpoint) == endpoint[1] = "Debug"

\* the handler function h a wrapper is applied to
HandlerDo(out) ==
    LET h == Layer("handler", "h")
    IN  [tr  |-> <<TrEv("enter", h, Nil)>>
                   \o IF out = Panicked THEN <<>> ELSE <<TrEv("exit", h, out)>>,
         ret |-> out]

\* HandlerStats(stats)(h)(ctx, req, rsp): err := h(...); stats.Record(err); return err
HandlerStats(l, r) ==
    [r EXCEPT !.tr = <<TrEv("enter", l, Nil)>> \o @
                       \o IF r.ret = Panicked THEN <<>>
                          ELSE <<TrEv("Stats.Record", l, r.ret), TrEv("exit", l, r.ret)>>]

\* TraceHandler(t)(h)(ctx, req, rsp)
TraceHandler(l, endpoint, r) ==
    IF HasPrefixDebug(endpoint) THEN Observed(l, r)
    ELSE [r EXCEPT !.tr = <<TrEv("enter", l, Nil), TrEv("Tracer.Start", l, Nil)>> \o @
                            \o IF r.ret = Panicked THEN <<>>
                               ELSE (IF r.ret # Nil THEN <<TrEv("span.error", l, r.ret)>>
                                     ELSE <<>>)
                                      \o <<TrEv("Tracer.Finish", l, Nil), TrEv("exit", l, r.ret)>>]

NoServe == [w |-> "none", endpoint |-> <<>>, tr |-> <<>>, ret |-> NotReturned]

\* the elements of a sequence
Range(s) == {s[k] : k \in 1..Len(s)}

\* the server serves a request through one of its handler wrappers
Serve ==
    /\ alive
    /\ rpc = NoCall /\ served = NoServe
    /\ \E w \in Range(hdlrWrappers[opts.Server]), endpoint \in Endpoints, out \in Outcomes :
         LET l == Layer("handlerWrapper", w)
             r == IF w = "HandlerStats" THEN HandlerStats(l, HandlerDo(out))
                  ELSE IF w = "TraceHandler" THEN TraceHandler(l, endpoint, HandlerDo(out))
                  ELSE Observed(l, HandlerDo(out))
         IN  served' = [w |-> w, endpoint |-> endpoint, tr |-> r.tr, ret |-> r.ret]
    /\ rpc' = NoCall
    /\ UNCHANGED <<opts, serverName, lifeVars, initVars, wireVars, logLevel, concVars>>

Ops == {"Call", "Stream", "Publish"}

\* contexts a caller issues an operation with: no metadata, an unrelated
\* header, a From-Service header of its own
Contexts ==
    {<<>>, [k \in {"X-User"} |-> "u1"], [k \in {FromServiceKey} |-> "caller"]}

\* service.Client().Call / Stream / Publish.  rpc and served describe one
\* invocation, the one a behaviour follows: a later one would overwrite them.
IssueCall ==
    /\ alive
    /\ rpc = NoCall /\ served = NoServe
    /\ \E op \in Ops, md \in Contexts, out \in Outcomes :
         LET r == Invoke(opts.Client, op, md, "req1", out)
         IN  rpc' = [op |-> op, via |-> opts.Client, md0 |-> md, req0 |-> "req1",
                     tr |-> r.tr, md |-> r.md, req |-> r.req, ret |-> r.ret]
    /\ served' = NoServe
    /\ UNCHANGED <<opts, serverName, lifeVars, initVars, wireVars, logLevel, concVars>>

\* ------------------------------------------- service.go: Start/Stop/Run
InCall == pc \notin {"idle", "done"}

\* the deferred Profile.Stop runs as Run returns
RunDeferred(l) ==
    IF profDeferred THEN Append(l, Ev("Profile.Stop", 0, FALSE)) ELSE l

\* the caller enters a method: its locals are fresh
Enter(method, first, l) ==
    /\ call' = method
    /\ pc' = first
    /\ log' = l
    /\ i' = 1
    /\ gerr' = Nil
    /\ startRet' = NotReturned
    /\ stopRet' = NotReturned
    /\ runRet' = NotReturned
    /\ profDeferred' = FALSE
    /\ notified' = FALSE
    /\ ch' = 0
    /\ sigCount' = 0
    /\ UNCHANGED <<opts, serverName, serverUp, ctxDone, initVars, extVars>>

\* the caller thread is outside Start/Stop/Run and the process is running
CanCall == pc \in {"idle", "done"} /\ alive

CallStart ==
    /\ CanCall
    /\ Enter("Start", "Start.before", <<Ev("Start", 0, FALSE)>>)

CallStop ==
    /\ CanCall
    /\ Enter("Stop", "Stop.before", <<Ev("Stop", 0, FALSE)>>)

\* mutant of CallRun: Run is refused on an instance Init was not called on
CallRun_AfterInit ==
    /\ CanCall
    /\ once
    /\ Enter("Run", "Run.profile", <<Ev("Server.Handle", 0, FALSE)>>)

\* Run: s.opts.Server.Handle(debug handler)
CallRun ==
    /\ CanCall
    /\ Enter("Run", "Run.profile", <<Ev("Server.Handle", 0, FALSE)>>)

\* mutant of RunProfile: Run goes on to Start although Profile.Start failed
RunProfile_StartAnyway ==
    /\ pc = "Run.profile"
    /\ i' = 1
    /\ IF opts.Profile # NoProfile
       THEN \E failed \in BOOLEAN :
              IF failed
              THEN /\ log' = log \o <<Ev("Profile.Start", 0, TRUE), Ev("Start", 0, FALSE)>>
                   /\ pc' = "Start.before"
                   /\ UNCHANGED <<runRet, profDeferred>>
              ELSE /\ log' = log \o <<Ev("Profile.Start", 0, FALSE), Ev("Start", 0, FALSE)>>
                   /\ profDeferred' = TRUE
                   /\ pc' = "Start.before"
                   /\ UNCHANGED runRet
       ELSE /\ log' = Append(log, Ev("Start", 0, FALSE))
            /\ pc' = "Start.before"
            /\ UNCHANGED <<runRet, profDeferred>>
    /\ UNCHANGED <<opts, serverName, serverUp, ctxDone, call, gerr, startRet,
                   stopRet, notified, ch, sigCount, initVars, extVars>>

\* Run: if s.opts.Profile != nil { Profile.Start(); defer Profile.Stop() }; s.Start()
RunProfile ==
    /\ pc = "Run.profile"
    /\ i' = 1
    /\ IF opts.Profile # NoProfile
       THEN \E failed \in BOOLEAN :
              IF failed
              THEN /\ log' = Append(log, Ev("Profile.Start", 0, TRUE))
                   /\ runRet' = Err("Profile.Start", 0)
                   /\ pc' = "done"
                   /\ UNCHANGED profDeferred
              ELSE /\ log' = log \o <<Ev("Profile.Start", 0, FALSE), Ev("Start", 0, FALSE)>>
                   /\ profDeferred' = TRUE
                   /\ pc' = "Start.before"
                   /\ UNCHANGED runRet
       ELSE /\ log' = Append(log, Ev("Start", 0, FALSE))
            /\ pc' = "Start.before"
            /\ UNCHANGED <<runRet, profDeferred>>
    /\ UNCHANGED <<opts, serverName, serverUp, ctxDone, call, gerr, startRet,
                   stopRet, notified, ch, sigCount, initVars, extVars>>

\* service.Start returns e, to its caller or into Run
StartReturn(e) ==
    /\ startRet' = e
    /\ pc' = IF call = "Start" THEN "done" ELSE "Run.started"

\* mutant of StartBeforeHook: the loop keeps going after a hook's error
StartBeforeHook_ContinueOnError ==
    /\ pc = "Start.before"
    /\ i <= Len(opts.BeforeStart)
    /\ \E failed \in BOOLEAN :
         log' = Append(log, Ev("BeforeStart", opts.BeforeStart[i], failed))
    /\ i' = i + 1
    /\ UNCHANGED <<opts, serverName, serverUp, ctxDone, call, pc, gerr, startRet, stopRet,
                   runRet, profDeferred, notified, ch, sigCount, initVars, extVars>>

\* Start: for _, fn := range s.opts.BeforeStart { if err := fn(); err != nil { return err } }
StartBeforeHook ==
    /\ pc = "Start.before"
    /\ i <= Len(opts.BeforeStart)
    /\ \E failed \in BOOLEAN :
         /\ log' = Append(log, Ev("BeforeStart", opts.BeforeStart[i], failed))
         /\ IF failed
            THEN StartReturn(Err("BeforeStart", opts.BeforeStart[i])) /\ UNCHANGED i
            ELSE i' = i + 1 /\ UNCHANGED <<pc, startRet>>
    /\ UNCHANGED <<opts, serverName, serverUp, ctxDone, call, gerr, stopRet, runRet,
                   profDeferred, notified, ch, sigCount, initVars, extVars>>

\* Start: if err := s.opts.Server.Start(); err != nil { return err }
StartServer ==
    /\ pc = "Start.before"
    /\ i > Len(opts.BeforeStart)
    /\ \E failed \in BOOLEAN :
         /\ log' = Append(log, Ev("Server.Start", 0, failed))
         /\ IF failed
            THEN StartReturn(Err("Server.Start", 0)) /\ UNCHANGED <<i, serverUp>>
            ELSE /\ serverUp' = TRUE
                 /\ pc' = "Start.after"
                 /\ i' = 1
                 /\ UNCHANGED startRet
    /\ UNCHANGED <<opts, serverName, ctxDone, call, gerr, stopRet, runRet,
                   profDeferred, notified, ch, sigCount, initVars, extVars>>

\* mutant of StartAfterHook: the loop keeps going after a hook's error
StartAfterHook_ContinueOnError ==
    /\ pc = "Start.after"
    /\ i <= Len(opts.AfterStart)
    /\ \E failed \in BOOLEAN :
         log' = Append(log, Ev("AfterStart", opts.AfterStart[i], failed))
    /\ i' = i + 1
    /\ UNCHANGED <<opts, serverName, serverUp, ctxDone, call, pc, gerr, startRet, stopRet,
                   runRet, profDeferred, notified, ch, sigCount, initVars, extVars>>

\* Start: for _, fn := range s.opts.AfterStart { if err := fn(); err != nil { return err } }
StartAfterHook ==
    /\ pc = "Start.after"
    /\ i <= Len(opts.AfterStart)
    /\ \E failed \in BOOLEAN :
         /\ log' = Append(log, Ev("AfterStart", opts.AfterStart[i], failed))
         /\ IF failed
            THEN StartReturn(Err("AfterStart", opts.AfterStart[i])) /\ UNCHANGED i
            ELSE i' = i + 1 /\ UNCHANGED <<pc, startRet>>
    /\ UNCHANGED <<opts, serverName, serverUp, ctxDone, call, gerr, stopRet, runRet,
                   profDeferred, notified, ch, sigCount, initVars, extVars>>

\* Start: return nil
StartReturnNil ==
    /\ pc = "Start.after"
    /\ i > Len(opts.AfterStart)
    /\ StartReturn(Nil)
    /\ UNCHANGED <<opts, serverName, serverUp, ctxDone, call, i, gerr, log, stopRet,
                   runRet, profDeferred, notified, ch, sigCount, initVars, extVars>>

\* mutant of RunStarted: Notify is called whatever s.opts.Signal says
RunStarted_AlwaysNotify ==
    /\ pc = "Run.started"
    /\ IF startRet # Nil
       THEN /\ runRet' = startRet
            /\ log' = RunDeferred(log)
            /\ pc' = "done"
            /\ UNCHANGED notified
       ELSE /\ notified' = TRUE
            /\ log' = Append(log, Ev("Notify", 0, FALSE))
            /\ pc' = "Run.select"
            /\ UNCHANGED runRet
    /\ UNCHANGED <<opts, serverName, serverUp, ctxDone, call, i, gerr, startRet,
                   stopRet, profDeferred, ch, sigCount, initVars, extVars>>

\* mutant of RunStarted: the profiler is stopped by a call at the end of Run
\* instead of a defer, so the return on Start's error skips it
RunStarted_NoDefer ==
    /\ pc = "Run.started"
    /\ IF startRet # Nil
       THEN /\ runRet' = startRet
            /\ pc' = "done"
            /\ UNCHANGED <<notified, log>>
       ELSE /\ notified' = opts.Signal
            /\ log' = IF opts.Signal THEN Append(log, Ev("Notify", 0, FALSE)) ELSE log
            /\ pc' = "Run.select"
            /\ UNCHANGED runRet
    /\ UNCHANGED <<opts, serverName, serverUp, ctxDone, call, i, gerr, startRet,
                   stopRet, profDeferred, ch, sigCount, initVars, extVars>>

\* Run: if err := s.Start(); err != nil { return err }
\*      ch := make(chan os.Signal, 1); if s.opts.Signal { signal.Notify(ch, ...) }
RunStarted ==
    /\ pc = "Run.started"
    /\ IF startRet # Nil
       THEN /\ runRet' = startRet
            /\ log' = RunDeferred(log)
            /\ pc' = "done"
            /\ UNCHANGED notified
       ELSE /\ notified' = opts.Signal
            /\ log' = IF opts.Signal THEN Append(log, Ev("Notify", 0, FALSE)) ELSE log
            /\ pc' = "Run.select"
            /\ UNCHANGED runRet
    /\ UNCHANGED <<opts, serverName, serverUp, ctxDone, call, i, gerr, startRet,
                   stopRet, profDeferred, ch, sigCount, initVars, extVars>>

\* Run: select { case <-ch: }; return s.Stop()
RunSelectSignal ==
    /\ pc = "Run.select"
    /\ ch > 0
    /\ ch' = ch - 1
    /\ log' = log \o <<Ev("<-ch", 0, FALSE), Ev("Stop", 0, FALSE)>>
    /\ pc' = "Stop.before"
    /\ i' = 1
    /\ UNCHANGED <<opts, serverName, serverUp, ctxDone, call, gerr, startRet, stopRet,
                   runRet, profDeferred, notified, sigCount, initVars, extVars>>

\* mutant of RunSelectContext: a cancelled context makes Run return nil
\* without calling s.Stop()
RunSelectContext_NoStop ==
    /\ pc = "Run.select"
    /\ ContextDone(opts.Context)
    /\ log' = Append(log, Ev("<-Done", 0, FALSE))
    /\ stopRet' = Nil
    /\ pc' = "Run.stopped"
    /\ UNCHANGED <<opts, serverName, serverUp, ctxDone, call, i, gerr, startRet,
                   runRet, profDeferred, notified, ch, sigCount, initVars, extVars>>

\* Run: select { case <-s.opts.Context.Done(): }; return s.Stop()
RunSelectContext ==
    /\ pc = "Run.select"
    /\ ContextDone(opts.Context)
    /\ log' = log \o <<Ev("<-Done", 0, FALSE), Ev("Stop", 0, FALSE)>>
    /\ pc' = "Stop.before"
    /\ i' = 1
    /\ UNCHANGED <<opts, serverName, serverUp, ctxDone, call, gerr, startRet, stopRet,
                   runRet, profDeferred, notified, ch, sigCount, initVars, extVars>>

\* service.Stop returns e, to its caller or into Run
StopReturn(e) ==
    /\ stopRet' = e
    /\ pc' = IF call = "Stop" THEN "done" ELSE "Run.stopped"

\* mutant of StopBeforeHook: the loop returns at a hook's error, as Start's does
StopBeforeHook_FailFast ==
    /\ pc = "Stop.before"
    /\ i <= Len(opts.BeforeStop)
    /\ \E failed \in BOOLEAN :
         /\ log' = Append(log, Ev("BeforeStop", opts.BeforeStop[i], failed))
         /\ IF failed
            THEN /\ stopRet' = Err("BeforeStop", opts.BeforeStop[i])
                 /\ pc' = IF call = "Stop" THEN "done" ELSE "Run.stopped"
                 /\ UNCHANGED i
            ELSE i' = i + 1 /\ UNCHANGED <<pc, stopRet>>
    /\ UNCHANGED <<opts, serverName, serverUp, ctxDone, call, gerr, startRet,
                   runRet, profDeferred, notified, ch, sigCount, initVars, extVars>>

\* Stop: for _, fn := range s.opts.BeforeStop { if err := fn(); err != nil { gerr = err } }
StopBeforeHook ==
    /\ pc = "Stop.before"
    /\ i <= Len(opts.BeforeStop)
    /\ \E failed \in BOOLEAN :
         /\ log' = Append(log, Ev("BeforeStop", opts.BeforeStop[i], failed))
         /\ gerr' = IF failed THEN Err("BeforeStop", opts.BeforeStop[i]) ELSE gerr
    /\ i' = i + 1
    /\ UNCHANGED <<opts, serverName, serverUp, ctxDone, call, pc, startRet, stopRet,
                   runRet, profDeferred, notified, ch, sigCount, initVars, extVars>>

\* mutant of StopServer: the server's error is kept in gerr and Stop goes on
StopServer_KeepGoing ==
    /\ pc = "Stop.before"
    /\ i > Len(opts.BeforeStop)
    /\ \E failed \in BOOLEAN :
         /\ log' = Append(log, Ev("Server.Stop", 0, failed))
         /\ gerr' = IF failed THEN Err("Server.Stop", 0) ELSE gerr
         /\ serverUp' = IF failed THEN serverUp ELSE FALSE
    /\ pc' = "Stop.after"
    /\ i' = 1
    /\ UNCHANGED <<opts, serverName, ctxDone, call, startRet, stopRet, runRet,
                   profDeferred, notified, ch, sigCount, initVars, extVars>>

\* Stop: if err := s.opts.Server.Stop(); err != nil { return err }
StopServer ==
    /\ pc = "Stop.before"
    /\ i > Len(opts.BeforeStop)
    /\ \E failed \in BOOLEAN :
         /\ log' = Append(log, Ev("Server.Stop", 0, failed))
         /\ IF failed
            THEN StopReturn(Err("Server.Stop", 0)) /\ UNCHANGED <<i, serverUp>>
            ELSE /\ serverUp' = FALSE
                 /\ pc' = "Stop.after"
                 /\ i' = 1
                 /\ UNCHANGED stopRet
    /\ UNCHANGED <<opts, serverName, ctxDone, call, gerr, startRet, runRet,
                   profDeferred, notified, ch, sigCount, initVars, extVars>>

\* mutant of StopAfterHook: the first error seen is kept, not the last
StopAfterHook_KeepFirst ==
    /\ pc = "Stop.after"
    /\ i <= Len(opts.AfterStop)
    /\ \E failed \in BOOLEAN :
         /\ log' = Append(log, Ev("AfterStop", opts.AfterStop[i], failed))
         /\ gerr' = IF failed /\ gerr = Nil THEN Err("AfterStop", opts.AfterStop[i]) ELSE gerr
    /\ i' = i + 1
    /\ UNCHANGED <<opts, serverName, serverUp, ctxDone, call, pc, startRet, stopRet,
                   runRet, profDeferred, notified, ch, sigCount, initVars, extVars>>

\* Stop: for _, fn := range s.opts.AfterStop { if err := fn(); err != nil { gerr = err } }
StopAfterHook ==
    /\ pc = "Stop.after"
    /\ i <= Len(opts.AfterStop)
    /\ \E failed \in BOOLEAN :
         /\ log' = Append(log, Ev("AfterStop", opts.AfterStop[i], failed))
         /\ gerr' = IF failed THEN Err("AfterStop", opts.AfterStop[i]) ELSE gerr
    /\ i' = i + 1
    /\ UNCHANGED <<opts, serverName, serverUp, ctxDone, call, pc, startRet, stopRet,
                   runRet, profDeferred, notified, ch, sigCount, initVars, extVars>>

\* Stop: return gerr
StopReturnGerr ==
    /\ pc = "Stop.after"
    /\ i > Len(opts.AfterStop)
    /\ StopReturn(gerr)
    /\ UNCHANGED <<opts, serverName, serverUp, ctxDone, call, i, gerr, log, startRet,
                   runRet, profDeferred, notified, ch, sigCount, initVars, extVars>>

\* mutant of RunReturn: Stop's result is dropped and Run returns nil
RunReturn_DropError ==
    /\ pc = "Run.stopped"
    /\ runRet' = Nil
    /\ log' = RunDeferred(log)
    /\ pc' = "done"
    /\ UNCHANGED <<opts, serverName, serverUp, ctxDone, call, i, gerr, startRet,
                   stopRet, profDeferred, notified, ch, sigCount, initVars, extVars>>

\* Run: return s.Stop(), after which the deferred Profile.Stop runs
RunReturn ==
    /\ pc = "Run.stopped"
    /\ runRet' = stopRet
    /\ log' = RunDeferred(log)
    /\ pc' = "done"
    /\ UNCHANGED <<opts, serverName, serverUp, ctxDone, call, i, gerr, startRet,
                   stopRet, profDeferred, notified, ch, sigCount, initVars, extVars>>

\* ------------------------------------------------------- the environment
\* the owner of the cancellable context cancels it
CancelContext ==
    /\ ~ctxDone
    /\ ctxDone' = TRUE
    /\ UNCHANGED <<opts, serverName, serverUp, call, pc, i, gerr, log, startRet,
                   stopRet, runRet, profDeferred, notified, ch, sigCount, initVars, extVars>>

\* An OS termination signal reaches the process while the caller is inside
\* a method.  os/signal sends it without blocking to a channel registered
\* with Notify and drops it when the buffer is full; a signal that arrives
\* while Run has registered no channel never reaches the service.
DeliverSignal ==
    /\ InCall
    /\ sigCount < MaxSignals
    /\ sigCount' = sigCount + 1
    /\ ch' = IF notified /\ ch < 1 THEN ch + 1 ELSE ch
    /\ UNCHANGED <<opts, serverName, serverUp, ctxDone, call, pc, i, gerr, log,
                   startRet, stopRet, runRet, profDeferred, notified, initVars, extVars>>

\* ------------------------------------------- server package: Run/Start/Stop
\* logger levels, least severe first
LevelOrder == <<"trace", "debug", "info", "warn", "error", "fatal">>

Levels == {LevelOrder[k] : k \in DOMAIN LevelOrder}

InfoLevel == "info"

LevelNo(lv) == CHOOSE k \in DOMAIN LevelOrder : LevelOrder[k] = lv

\* logger.V(lv, log): the logger's configured level admits messages of level lv
V(lv) == LevelNo(logLevel) <= LevelNo(lv)

\* if logger.V(logger.InfoLevel, log) { log.Infof(msg) }
Infof(l, msg) == IF V(InfoLevel) THEN Append(l, Ev(msg, 0, FALSE)) ELSE l

\* the caller enters server.Run
ServerRunCall ==
    /\ CanCall
    /\ Enter("server.Run", "server.Start", <<Ev("server.Run", 0, FALSE)>>)
    /\ UNCHANGED logLevel

\* Run: if err := Start(); err != nil { return err }
\*      ch := make(chan os.Signal, 1); signal.Notify(ch, ...)
\* Start: log "Starting server"; return DefaultServer.Start()
ServerRunStart ==
    /\ pc = "server.Start"
    /\ \E failed \in BOOLEAN :
         IF failed
         THEN /\ log' = Append(Infof(log, "Infof.Starting"), Ev("Server.Start", 0, TRUE))
              /\ runRet' = Err("Server.Start", 0)
              /\ pc' = "done"
              /\ UNCHANGED <<serverUp, notified>>
         ELSE /\ log' = Infof(log, "Infof.Starting")
                          \o <<Ev("Server.Start", 0, FALSE), Ev("Notify", 0, FALSE)>>
              /\ serverUp' = TRUE
              /\ notified' = TRUE
              /\ pc' = "server.wait"
              /\ UNCHANGED runRet
    /\ UNCHANGED <<opts, serverName, ctxDone, call, i, gerr, startRet, stopRet,
                   profDeferred, ch, sigCount, initVars, extVars>>

\* Run: if logger.V(logger.InfoLevel, log) { ... } is skipped: return Stop()
ServerRunNoWait ==
    /\ pc = "server.wait"
    /\ ~V(InfoLevel)
    /\ pc' = "server.Stop"
    /\ UNCHANGED <<opts, serverName, serverUp, ctxDone, call, i, gerr, log, startRet, stopRet,
                   runRet, profDeferred, notified, ch, sigCount, initVars, extVars>>

\* Run: log.Infof("Received signal %s", <-ch): the argument is received
\* from ch, which blocks until a signal is buffered, then the line is logged
ServerRunReceive ==
    /\ pc = "server.wait"
    /\ V(InfoLevel)
    /\ ch > 0
    /\ ch' = ch - 1
    /\ log' = log \o <<Ev("<-ch", 0, FALSE), Ev("Infof.Received", 0, FALSE)>>
    /\ pc' = "server.Stop"
    /\ UNCHANGED <<opts, serverName, serverUp, ctxDone, call, i, gerr, startRet, stopRet,
                   runRet, profDeferred, notified, sigCount, initVars, extVars>>

\* Run: return Stop()
\* Stop: log "Stopping server"; return DefaultServer.Stop()
ServerRunStop ==
    /\ pc = "server.Stop"
    /\ \E failed \in BOOLEAN :
         /\ log' = Append(Infof(log, "Infof.Stopping"), Ev("Server.Stop", 0, failed))
         /\ serverUp' = IF failed THEN serverUp ELSE FALSE
         /\ runRet' = IF failed THEN Err("Server.Stop", 0) ELSE Nil
    /\ pc' = "done"
    /\ UNCHANGED <<opts, serverName, ctxDone, call, i, gerr, startRet, stopRet,
                   profDeferred, notified, ch, sigCount, initVars, extVars>>

\* ------------------------------------------------------ specification
\* Hooks h+1 .. h+n registered by the mutator named op
RECURSIVE Hooks(_, _, _)
Hooks(op, h, n) ==
    IF n = 0 THEN <<>> ELSE <<Opt(op, h + 1, FALSE, "")>> \o Hooks(op, h + 1, n - 1)

\* The mutators NewService is given: some hooks of each kind, and the
\* signal, profiler and context options.
ServiceOpts(nbs, nas, nbp, nap, sig, prof, ctx) ==
    Hooks("BeforeStart", 0, nbs) \o Hooks("AfterStart", nbs, nas)
      \o Hooks("BeforeStop", nbs + nas, nbp) \o Hooks("AfterStop", nbs + nas + nbp, nap)
      \o <<Opt("HandleSignal", 0, sig, ""), Opt("Profile", 0, FALSE, prof),
           Opt("Context", 0, FALSE, ctx)>>

InitLife ==
    /\ serverUp = FALSE
    /\ ctxDone = FALSE
    /\ call = "none"
    /\ pc = "idle"
    /\ i = 1
    /\ gerr = Nil
    /\ log = <<>>
    /\ startRet = NotReturned
    /\ stopRet = NotReturned
    /\ runRet = NotReturned
    /\ profDeferred = FALSE
    /\ notified = FALSE
    /\ ch = 0
    /\ sigCount = 0

\* the goroutines that may call Init on the one instance, and the callers
\* that may use its client at the same time
Threads == {"t1", "t2"}
Callers == {"c1", "c2"}

\* a thread that has not called Init; a caller with no operation under way
IdleThread == [pc |-> "idle", ms |-> <<>>]
NoFlight == [op |-> "none", md0 |-> <<>>, at |-> 0, md |-> <<>>]
NoAuthCall == [done |-> FALSE, in |-> <<>>, out |-> <<>>]

InitWrap ==
    /\ rpc = NoCall
    /\ served = NoServe
    /\ thr = [t \in Threads |-> IdleThread]
    /\ flight = [c \in Callers |-> NoFlight]
    /\ authCall = NoAuthCall

\* the logger is left at the level that admits Info messages
InitLogger == logLevel = InfoLevel

InitInit ==
    /\ once = FALSE
    /\ fx = <<>>
    /\ initCalls = 0
    /\ passed = <<>>
    /\ cmdAppName = [c \in Cmds |-> ""]
    /\ pluginEnv = <<"">>
    /\ alive = TRUE

\* after NewService(opts...)
Init ==
    /\ \E nbs, nas, nbp, nap \in 0..MaxHooks :
       \E sig \in BOOLEAN, prof \in {NoProfile, Profiler}, ctx \in {Background, Cancellable} :
         /\ nbs + nas + nbp + nap <= MaxHooks
         /\ Holds(newService(ServiceOpts(nbs, nas, nbp, nap, sig, prof, ctx)))
    /\ InitLife
    /\ InitWrap
    /\ InitLogger
    /\ InitInit

Next ==
    \/ CallStart
    \/ CallStop
    \/ CallRun
    \/ RunProfile
    \/ StartBeforeHook
    \/ StartServer
    \/ StartAfterHook
    \/ StartReturnNil
    \/ RunStarted
    \/ RunSelectSignal
    \/ RunSelectContext
    \/ StopBeforeHook
    \/ StopServer
    \/ StopAfterHook
    \/ StopReturnGerr
    \/ RunReturn
    \/ CancelContext
    \/ DeliverSignal

Spec == Init /\ [][Next]_vars

\* Go's select proceeds once one of its cases is ready.
FairSpec == Spec /\ WF_vars(RunSelectSignal \/ RunSelectContext)

\* ---------------------------------------------------- service.go: Init
\* a one-time side effect: the call made, its argument, whether it failed,
\* and the Init call (1, 2, ...) that made it
Fx(ev, arg, failed, n) == [ev |-> ev, arg |-> arg, err |-> failed, call |-> n]

\* for _, p := range strings.Split(os.Getenv("MICRO_PLUGIN"), ",") { if len(p) == 0 { continue } ... }
RECURSIVE Plugins(_)
Plugins(tokens) ==
    IF tokens = <<>> THEN <<>>
    ELSE IF Head(tokens) = "" THEN Plugins(Tail(tokens))
         ELSE <<Head(tokens)>> \o Plugins(Tail(tokens))

\* The fallible calls of the once body, in order: plugin.Load(p) and
\* plugin.Init(c) for each plugin, then Cmd.Init(...).
RECURSIVE PluginCalls(_)
PluginCalls(ps) ==
    IF ps = <<>> THEN <<>>
    ELSE <<[ev |-> "plugin.Load", arg |-> Head(ps)], [ev |-> "plugin.Init", arg |-> Head(ps)]>>
           \o PluginCalls(Tail(ps))

OnceCalls(o) == PluginCalls(Plugins(pluginEnv)) \o <<[ev |-> "Cmd.Init", arg |-> o.Cmd]>>

\* s.opts.Cmd.App().Name after: if len(App().Name) == 0 { App().Name = s.Server().Options().Name }
AppName(o, sn) == IF cmdAppName[o.Cmd] = "" THEN sn[o.Server] ELSE cmdAppName[o.Cmd]

\* The body of s.once.Do in Init call n, its f-th fallible call failing
\* (f = 0: none fails).  A failing call ends the process (logger.Fatal);
\* otherwise Store.Init(store.Table(name)) closes the body.
OnceBody(o, sn, f, n) ==
    LET cs == OnceCalls(o)
        m == IF f = 0 THEN Len(cs) ELSE f
        done == [k \in 1..m |-> Fx(cs[k].ev, cs[k].arg, k = f, n)]
    IN  [fx    |-> IF f = 0 THEN Append(done, Fx("Store.Init", AppName(o, sn), FALSE, n)) ELSE done,
         named |-> f = 0 \/ f = Len(cs),
         fatal |-> f # 0]

\* mutant of InitCall: the once body is not guarded by s.once
InitCall_NoOnce(ms) ==
    /\ CanCall
    /\ LET st == ApplyAll(ms, Current)
           n == initCalls + 1
       IN  /\ opts' = st.o
           /\ serverName' = st.sn
           /\ inits' = st.ini
           /\ hdlrWrappers' = st.hw
           /\ subWrappers' = st.sw
           /\ passed' = passed \o [k \in 1..Len(ms) |-> [call |-> n, m |-> ms[k]]]
           /\ \E f \in 0..Len(OnceCalls(st.o)) :
                LET r == OnceBody(st.o, st.sn, f, n)
                IN  /\ once' = TRUE
                    /\ fx' = fx \o r.fx
                    /\ cmdAppName' = IF r.named
                                     THEN [cmdAppName EXCEPT ![st.o.Cmd] = AppName(st.o, st.sn)]
                                     ELSE cmdAppName
                    /\ alive' = ~r.fatal
                    /\ initCalls' = IF r.fatal THEN initCalls ELSE n
    /\ UNCHANGED <<lifeVars, pluginEnv, wrapVars, logLevel, concVars>>

\* service.Init(opts...): apply the mutators to s.opts, then s.once.Do(body)
InitCall(ms) ==
    /\ CanCall
    /\ LET st == ApplyAll(ms, Current)
           n == initCalls + 1
       IN  /\ opts' = st.o
           /\ serverName' = st.sn
           /\ inits' = st.ini
           /\ hdlrWrappers' = st.hw
           /\ subWrappers' = st.sw
           /\ passed' = passed \o [k \in 1..Len(ms) |-> [call |-> n, m |-> ms[k]]]
           /\ IF once
              THEN /\ initCalls' = n
                   /\ UNCHANGED <<once, fx, cmdAppName, alive>>
              ELSE \E f \in 0..Len(OnceCalls(st.o)) :
                     LET r == OnceBody(st.o, st.sn, f, n)
                     IN  /\ once' = TRUE
                         /\ fx' = fx \o r.fx
                         /\ cmdAppName' = IF r.named
                                          THEN [cmdAppName EXCEPT ![st.o.Cmd] = AppName(st.o, st.sn)]
                                          ELSE cmdAppName
                         /\ alive' = ~r.fatal
                         /\ initCalls' = IF r.fatal THEN initCalls ELSE n
    /\ UNCHANGED <<lifeVars, pluginEnv, wrapVars, logLevel, concVars>>

\* The mutators a caller passes to Init, before their hooks are numbered.
OptShapes ==
    {Opt(op, 0, FALSE, "") : op \in {"BeforeStart", "BeforeStop", "AfterStart", "AfterStop"}}
      \cup {Opt("HandleSignal", 0, b, "") : b \in BOOLEAN}
      \cup {Opt("Name", 0, FALSE, n) : n \in Names}
      \cup {Opt("Cmd", 0, FALSE, "cmd2"), Opt("Profile", 0, FALSE, Profiler),
            Opt("Context", 0, FALSE, Cancellable)}

IsHook(m) == m.op \in {"BeforeStart", "BeforeStop", "AfterStart", "AfterStop"}

\* each hook of ms is a new function value: the h+1st, h+2nd, ... hook registered
RECURSIVE Number(_, _)
Number(ms, h) ==
    IF ms = <<>> THEN <<>>
    ELSE IF IsHook(Head(ms))
         THEN <<[Head(ms) EXCEPT !.fn = h + 1]>> \o Number(Tail(ms), h + 1)
         ELSE <<Head(ms)>> \o Number(Tail(ms), h)

HooksRegistered ==
    Len(opts.BeforeStart) + Len(opts.BeforeStop) + Len(opts.AfterStart) + Len(opts.AfterStop)

SeqsUpTo(S, n) == UNION {[1..k -> S] : k \in 0..n}

\* a caller calls Init with some mutators
CallInit ==
    /\ initCalls < MaxInits
    /\ \E ms \in SeqsUpTo(OptShapes, MaxOpts - Len(passed)) :
         InitCall(Number(ms, HooksRegistered))

\* after NewService(): the default record; the environment's plugin list
\* and the name the shared default Cmd carries (set by an earlier service
\* of the process, or empty) are given
InitOfInit ==
    /\ Holds(newService(<<>>))
    /\ InitLife
    /\ InitWrap
    /\ InitLogger
    /\ once = FALSE
    /\ fx = <<>>
    /\ initCalls = 0
    /\ passed = <<>>
    /\ \E n \in {"", "other.app"} : cmdAppName = [c \in Cmds |-> IF c = DefaultCmd THEN n ELSE ""]
    /\ pluginEnv \in {<<"">>, <<"p1", "", "p2">>}
    /\ alive = TRUE

SpecInit == InitOfInit /\ [][CallInit]_vars

\* ------------------------------------------------------------- claims
Ids(s) == [k \in 1..Len(s) |-> s[k].id]

IsPrefix(a, b) == Len(a) <= Len(b) /\ a = SubSeq(b, 1, Len(a))

StartPhase == {"BeforeStart", "Server.Start", "AfterStart"}
StopPhase == {"BeforeStop", "Server.Stop", "AfterStop"}

\* the hook events of Stop, in the order they happened
RECURSIVE StopHookEvents(_)
StopHookEvents(s) ==
    IF s = <<>> THEN <<>>
    ELSE IF Head(s).ev \in {"BeforeStop", "AfterStop"}
         THEN <<Head(s)>> \o StopHookEvents(Tail(s))
         ELSE StopHookEvents(Tail(s))

\* the error of the last failed event of s, nil when none failed
LastError(s) ==
    LET F == {k \in 1..Len(s) : s[k].err}
    IN  IF F = {} THEN Nil
        ELSE LET m == CHOOSE k \in F : \A j \in F : j <= k
             IN  Err(s[m].ev, s[m].id)

\* C1: Start runs the before-start hooks in list order; at the first hook
\* that returns an error nothing more of Start runs (no later hook, no
\* Server.Start, no after-start hook) and Start returns that hook's error.
C1_StartBeforeFailFast ==
    LET bs == SelectSeqEv(log, "BeforeStart")
    IN  /\ IsPrefix(Ids(bs), opts.BeforeStart)
        /\ \A k \in 1..Len(log) :
             (log[k].ev = "BeforeStart" /\ log[k].err) =>
                /\ \A j \in 1..Len(log) : j > k => log[j].ev \notin StartPhase
                /\ \A j \in 1..Len(log) : (j < k /\ log[j].ev = "BeforeStart") => ~log[j].err
                /\ startRet = Err("BeforeStart", log[k].id)

\* C1 witness: Start called directly with before-start = [ok, err] and an
\* after-start hook registered: it returned the second hook's error.
C1_Witness ==
    /\ call = "Start" /\ pc = "done"
    /\ Len(opts.BeforeStart) = 2 /\ Len(opts.AfterStart) = 1
    /\ log = <<Ev("Start", 0, FALSE), Ev("BeforeStart", opts.BeforeStart[1], FALSE),
               Ev("BeforeStart", opts.BeforeStart[2], TRUE)>>
    /\ startRet = Err("BeforeStart", opts.BeforeStart[2])

\* C2: with every before-start hook succeeding, Server.Start is invoked
\* exactly once; its error is returned with no after-start hook run; on
\* success the after-start hooks run in order, the first error ends the
\* sequence and is returned, and the server stays started (no Server.Stop).
C2_StartServerAndAfterHooks ==
    LET bs == SelectSeqEv(log, "BeforeStart")
        ss == SelectSeqEv(log, "Server.Start")
        as == SelectSeqEv(log, "AfterStart")
        allBeforeOk == Len(bs) = Len(opts.BeforeStart) /\ \A k \in 1..Len(bs) : ~bs[k].err
    IN  /\ Len(ss) <= 1
        /\ (Len(ss) = 1) => allBeforeOk
        /\ (allBeforeOk /\ startRet # NotReturned) => Len(ss) = 1
        /\ (Len(ss) = 1 /\ ss[1].err) =>
              /\ as = <<>>
              /\ startRet = Err("Server.Start", 0)
        /\ (Len(ss) = 0) => as = <<>>
        /\ (Len(ss) = 1 /\ ~ss[1].err) =>
              /\ IsPrefix(Ids(as), opts.AfterStart)
              /\ \A k \in 1..Len(as) :
                   as[k].err => /\ k = Len(as)
                                /\ startRet = Err("AfterStart", as[k].id)
                                /\ serverUp
                                /\ Count(log, "Server.Stop") = 0
              /\ (startRet = Nil) <=>
                   (pc \notin {"Start.before", "Start.after"}
                      /\ Len(as) = Len(opts.AfterStart) /\ \A k \in 1..Len(as) : ~as[k].err)

\* C2 witness: Run whose server started and whose second after-start hook
\* failed: Run has returned, the server is up and was never stopped.
C2_Witness ==
    /\ call = "Run" /\ pc = "done"
    /\ Len(opts.AfterStart) = 2 /\ Len(opts.BeforeStart) = 1
    /\ startRet = Err("AfterStart", opts.AfterStart[2])
    /\ Count(log, "Server.Start") = 1
    /\ serverUp

\* C3: Stop runs every before-stop hook exactly once, in order, whatever
\* the hooks return, and then invokes Server.Stop exactly once.
C3_StopBeforeBestEffort ==
    LET bp == SelectSeqEv(log, "BeforeStop")
    IN  /\ IsPrefix(Ids(bp), opts.BeforeStop)
        /\ Count(log, "Server.Stop") <= 1
        /\ \A k \in 1..Len(log) :
             log[k].ev = "Server.Stop" =>
                Ids(SelectSeqEv(SubSeq(log, 1, k - 1), "BeforeStop")) = opts.BeforeStop
        /\ (stopRet # NotReturned) =>
              /\ Ids(bp) = opts.BeforeStop
              /\ Count(log, "Server.Stop") = 1

\* C3 witness: Stop with before-stop = [err, ok]: both ran, then Server.Stop.
C3_Witness ==
    /\ call = "Stop"
    /\ Len(opts.BeforeStop) = 2
    /\ log = <<Ev("Stop", 0, FALSE), Ev("BeforeStop", opts.BeforeStop[1], TRUE),
               Ev("BeforeStop", opts.BeforeStop[2], FALSE), Ev("Server.Stop", 0, FALSE)>>

\* C4: when Server.Stop succeeds, Stop runs every after-stop hook and
\* returns the error of the last hook that failed in before-stop ++
\* after-stop, or nil when no hook failed.
C4_StopReturnsLastHookError ==
    (stopRet # NotReturned /\ \E k \in 1..Len(log) : log[k].ev = "Server.Stop" /\ ~log[k].err) =>
        LET hs == StopHookEvents(log)
        IN  /\ Ids(SelectSeqEv(log, "AfterStop")) = opts.AfterStop
            /\ Ids(hs) = opts.BeforeStop \o opts.AfterStop
            /\ stopRet = LastError(hs)

\* C4 witness: a before-stop hook failed, then the first after-stop hook
\* failed and the second succeeded: Stop returned the after-stop error.
C4_Witness ==
    /\ stopRet # NotReturned
    /\ Len(opts.BeforeStop) = 1 /\ Len(opts.AfterStop) = 2
    /\ \E k \in 1..Len(log) : log[k] = Ev("BeforeStop", opts.BeforeStop[1], TRUE)
    /\ \E k \in 1..Len(log) : log[k] = Ev("AfterStop", opts.AfterStop[1], TRUE)
    /\ \E k \in 1..Len(log) : log[k] = Ev("AfterStop", opts.AfterStop[2], FALSE)
    /\ stopRet = Err("AfterStop", opts.AfterStop[1])

\* C5: when Server.Stop returns an error, Stop returns that error at once:
\* no after-stop hook runs and the error kept from the before-stop hooks is
\* not returned.
C5_StopServerErrorReturned ==
    \A k \in 1..Len(log) :
        (log[k].ev = "Server.Stop" /\ log[k].err) =>
           /\ stopRet = Err("Server.Stop", 0)
           /\ \A j \in 1..Len(log) : j > k => log[j].ev \notin StopPhase
           /\ Count(log, "AfterStop") = 0

\* C5 witness: a before-stop hook failed, Server.Stop failed, an after-stop
\* hook is registered, and Stop returned the server's error.
C5_Witness ==
    /\ call = "Stop" /\ pc = "done"
    /\ Len(opts.BeforeStop) >= 1 /\ Len(opts.AfterStop) >= 1
    /\ gerr = Err("BeforeStop", opts.BeforeStop[1])
    /\ stopRet = Err("Server.Stop", 0)

\* a shutdown event Run's select can take: a signal in the registered
\* channel, or the context done
ShutdownEvent ==
    call = "Run" /\ pc = "Run.select" /\ (ch > 0 \/ ContextDone(opts.Context))

StopInvokedOnce == call = "Run" /\ Count(log, "Stop") = 1

C6_AtMostOneStop ==
    (call = "Run") =>
        /\ Count(log, "Stop") <= 1
        /\ Count(log, "Stop") = Count(log, "<-ch") + Count(log, "<-Done")
        /\ (Count(log, "Stop") = 1) => startRet = Nil
        /\ (startRet = Nil /\ pc \notin {"Run.started", "Run.select"})
              => Count(log, "Stop") = 1

\* C6: in a Run whose Start succeeded Stop is never invoked twice, and once
\* a shutdown event is there (a signal in the registered channel, the
\* context done, or both) Stop is invoked, exactly once.
C6_RunStopsExactlyOnce ==
    /\ []C6_AtMostOneStop
    /\ ShutdownEvent ~> StopInvokedOnce

\* C6 witness: both events had fired when the select ran: the context
\* branch was taken, the signal is still in the channel, Stop ran once and
\* Run returned.
C6_Witness ==
    /\ call = "Run" /\ pc = "done" /\ startRet = Nil
    /\ notified /\ ch = 1 /\ ContextDone(opts.Context)
    /\ Count(log, "<-Done") = 1
    /\ Count(log, "Stop") = 1

\* C7: with Signal = false and the context not cancelled, a Run whose
\* Start succeeded has not invoked Stop and has not returned, whatever
\* signals were delivered to the process.
C7_NoSignalNoCancelBlocks ==
    (call = "Run" /\ startRet = Nil /\ ~opts.Signal /\ ~ContextDone(opts.Context)) =>
        /\ pc \in {"Run.started", "Run.select"}
        /\ Count(log, "Stop") = 0
        /\ runRet = NotReturned
        /\ ~ENABLED (RunSelectSignal \/ RunSelectContext)

\* C7 witness: Run waits in its select, signal handling is off, the
\* context is cancellable but not cancelled, and signals were delivered.
C7_Witness ==
    /\ call = "Run" /\ pc = "Run.select"
    /\ ~opts.Signal /\ opts.Context = Cancellable /\ ~ctxDone
    /\ sigCount = MaxSignals

\* C8 as claimed: whenever Run returns, Stop has been invoked and Run
\* returns what Stop returned.
C8_Original ==
    (call = "Run" /\ runRet # NotReturned) =>
        /\ Count(log, "Stop") >= 1
        /\ runRet = stopRet

\* C8 amended: when Run returns after its Start succeeded, Stop has been
\* invoked once and Run returns what Stop returned; when the profiler's
\* Start or the service's Start failed, Run returns that error and Stop
\* was not invoked.
C8_RunReturnsStopResult ==
    (call = "Run" /\ runRet # NotReturned) =>
        IF startRet = Nil
        THEN /\ Count(log, "Stop") = 1
             /\ stopRet # NotReturned
             /\ runRet = stopRet
        ELSE /\ Count(log, "Stop") = 0
             /\ stopRet = NotReturned
             /\ runRet # Nil
             /\ runRet = IF startRet = NotReturned THEN Err("Profile.Start", 0) ELSE startRet

\* C8 witness: Run returned the error its Stop returned.
C8_Witness ==
    /\ call = "Run" /\ pc = "done" /\ startRet = Nil
    /\ stopRet \notin {Nil, NotReturned}
    /\ runRet = stopRet

\* C9: when Run started a profiler, Profile.Stop is called exactly once, as
\* the last thing before Run returns, on every exit path; it is not called
\* before that, and never when no profiler was started.
C9_ProfilerStoppedOnEveryExit ==
    (call = "Run") =>
        LET started == \E k \in 1..Len(log) : log[k].ev = "Profile.Start" /\ ~log[k].err
        IN  /\ (started /\ runRet # NotReturned) =>
                  /\ Count(log, "Profile.Stop") = 1
                  /\ log[Len(log)].ev = "Profile.Stop"
            /\ (started /\ runRet = NotReturned) => Count(log, "Profile.Stop") = 0
            /\ ~started => Count(log, "Profile.Stop") = 0
            /\ (opts.Profile # NoProfile /\ pc # "Run.profile") => Count(log, "Profile.Start") = 1

\* C9 witness: the profiler started, an after-start hook failed, and Run
\* returned with the profiler stopped.
C9_Witness ==
    /\ call = "Run" /\ pc = "done"
    /\ startRet.ev = "AfterStart"
    /\ runRet = startRet
    /\ Count(log, "Profile.Start") = 1
    /\ log[Len(log)].ev = "Profile.Stop"

\* the mutators named op that were passed to Init, oldest first
RECURSIVE PassedOf(_, _)
PassedOf(h, ops) ==
    IF h = <<>> THEN <<>>
    ELSE IF Head(h).m.op \in ops THEN <<Head(h).m>> \o PassedOf(Tail(h), ops)
         ELSE PassedOf(Tail(h), ops)

\* the value of the last mutator named op, or d when none was passed
LastPassed(op, d) ==
    LET ps == PassedOf(passed, {op})
    IN  IF ps = <<>> THEN d ELSE ps[Len(ps)]

FnsOf(ps) == [k \in 1..Len(ps) |-> ps[k].fn]

\* C10: over any number of sequential Init calls the one-time side effects
\* (plugin load and init, Cmd.Init, Store.Init with the table name) are
\* executed exactly once in total, in the first call, while the record
\* reflects the mutators of every call, applied in order.
C10_InitOnceEffectsAllMutators ==
    LET want == OnceCalls(opts)
    IN  /\ \A k \in 1..Len(fx) : fx[k].call = 1
        /\ \A j, k \in 1..Len(fx) : (fx[j].ev = fx[k].ev /\ fx[j].arg = fx[k].arg) => j = k
        /\ (initCalls >= 1) =>
              /\ once
              /\ Len(fx) = Len(Plugins(pluginEnv)) * 2 + 2
              /\ \A k \in 1..Len(fx) : ~fx[k].err
              /\ \A k \in 1..(Len(fx) - 2) :
                   fx[k].ev = want[k].ev /\ fx[k].arg = want[k].arg
              /\ fx[Len(fx) - 1].ev = "Cmd.Init"
              /\ fx[Len(fx)].ev = "Store.Init"
        /\ opts.Signal = LastPassed("HandleSignal", Opt("HandleSignal", 0, TRUE, "")).b
        /\ opts.Cmd = LastPassed("Cmd", Opt("Cmd", 0, FALSE, DefaultCmd)).v
        /\ opts.Profile = LastPassed("Profile", Opt("Profile", 0, FALSE, NoProfile)).v
        /\ opts.Context = LastPassed("Context", Opt("Context", 0, FALSE, Background)).v
        /\ serverName[opts.Server] = LastPassed("Name", Opt("Name", 0, FALSE, DefaultName)).v
        /\ opts.BeforeStart = FnsOf(PassedOf(passed, {"BeforeStart"}))
        /\ opts.BeforeStop = FnsOf(PassedOf(passed, {"BeforeStop"}))
        /\ opts.AfterStart = FnsOf(PassedOf(passed, {"AfterStart"}))
        /\ opts.AfterStop = FnsOf(PassedOf(passed, {"AfterStop"}))
        /\ FnsOf(PassedOf(passed, {"BeforeStart", "BeforeStop", "AfterStart", "AfterStop"}))
             = [k \in 1..HooksRegistered |-> k]

\* C10 witness: two Init calls returned, two plugins were loaded and
\* initialised, Cmd.Init and Store.Init ran, and the second call's
\* HandleSignal(false) overwrote the first call's HandleSignal(true).
C10_Witness ==
    /\ initCalls = 2
    /\ Len(fx) = 6
    /\ Len(passed) = 2
    /\ passed[1] = [call |-> 1, m |-> Opt("HandleSignal", 0, TRUE, "")]
    /\ passed[2] = [call |-> 2, m |-> Opt("HandleSignal", 0, FALSE, "")]
    /\ ~opts.Signal

\* ------------------------------------------- options.go: construction
\* The mutators a caller passes to NewService and Init: each setter with
\* the default instance of its field or another one; Auth and Profile may
\* also be given nil.
BuildShapes ==
    {Opt("Auth", 0, FALSE, a) : a \in {DefaultAuth, "auth2", NilRef}}
      \cup {Opt("Broker", 0, FALSE, b) : b \in {DefaultBroker, "broker2"}}
      \cup {Opt("Cmd", 0, FALSE, c) : c \in Cmds}
      \cup {Opt("Config", 0, FALSE, c) : c \in {DefaultConfig, "config2"}}
      \cup {Opt("Client", 0, FALSE, c) : c \in {"DefaultClient", "client2"}}
      \cup {Opt("Server", 0, FALSE, s) : s \in Servers}
      \cup {Opt("Store", 0, FALSE, s) : s \in {DefaultStore, "store2"}}
      \cup {Opt("Registry", 0, FALSE, r) : r \in {DefaultRegistry, "registry2"}}
      \cup {Opt("Runtime", 0, FALSE, r) : r \in {DefaultRuntime, "runtime2"}}
      \cup {Opt("Transport", 0, FALSE, t) : t \in {DefaultTransport, "transport2"}}
      \cup {Opt("Profile", 0, FALSE, p) : p \in {NoProfile, Profiler}}
      \cup {Opt("Context", 0, FALSE, c) : c \in {Background, Cancellable}}
      \cup {Opt("HandleSignal", 0, b, "") : b \in BOOLEAN}

\* history of the mutators given to NewService: call 0
PassedToNew(ms) == [k \in 1..Len(ms) |-> [call |-> 0, m |-> ms[k]]]

\* after NewService(ms...), for every short list of setters
InitOfOpts ==
    /\ \E ms \in SeqsUpTo(BuildShapes, MaxBuild) :
         /\ Holds(newService(ms))
         /\ passed = PassedToNew(ms)
    /\ InitLife
    /\ InitWrap
    /\ InitLogger
    /\ once = FALSE
    /\ fx = <<>>
    /\ initCalls = 0
    /\ cmdAppName = [c \in Cmds |-> ""]
    /\ pluginEnv = <<"">>
    /\ alive = TRUE

\* a caller calls Init with one more setter
CallInitOpt ==
    /\ Len(passed) < MaxBuild
    /\ \E m \in BuildShapes : InitCall(<<m>>)

SpecOpts == InitOfOpts /\ [][CallInitOpt]_vars

\* ------------------------------------------------------------- C11
\* the fields written by a setter that stores its argument
SetterFields ==
    {"Auth", "Broker", "Cmd", "Config", "Server", "Store", "Registry", "Runtime",
     "Transport", "Profile", "Context"}

\* positions in the history of the mutators named op
Writes(op) == {k \in 1..Len(passed) : passed[k].m.op = op}

LastWrite(op) == CHOOSE k \in Writes(op) : \A j \in Writes(op) : j <= k

\* the client the record holds when the last Client(c) was given to
\* NewService (or none was given): newService wrapped it after newOptions
Decorated(c) == TraceCall(DefaultName, FromService(DefaultName, c))

\* C11: over every sequence of mutators given to newOptions and Init, a field
\* written by two or more mutators holds the value the last of them wrote,
\* and a field no mutator wrote holds its default.
C11_LastWriteWins ==
    /\ \A F \in SetterFields :
         opts[F] = IF Writes(F) = {} THEN DefaultOptions[F] ELSE passed[LastWrite(F)].m.v
    /\ opts.Signal = IF Writes("HandleSignal") = {} THEN DefaultOptions.Signal
                     ELSE passed[LastWrite("HandleSignal")].m.b
    /\ opts.Client = IF Writes("Client") = {} THEN Decorated(DefaultClient)
                     ELSE IF passed[LastWrite("Client")].call = 0
                          THEN Decorated(NewClient(passed[LastWrite("Client")].m.v))
                          ELSE NewClient(passed[LastWrite("Client")].m.v)

\* two mutators of one call wrote different registries: the second one is held
C11_Witness ==
    /\ Len(passed) = 2
    /\ passed[1].m.op = "Registry"
    /\ passed[2].m.op = "Registry"
    /\ passed[1].call = passed[2].call
    /\ passed[1].m.v # passed[2].m.v
    /\ opts.Registry = passed[2].m.v
    /\ opts.Store = DefaultStore

\* ----------------------------------------------- wrappers: specification
WrapperNames == <<"w0", "w1", "w2", "w3">>

\* the wrapper lists a caller gives to WrapClient: none, one or several
WrapLists == {SubSeq(WrapperNames, 1, n) : n \in 0..MaxWrap}

WrapShapes ==
    {OptW("WrapClient", ws) : ws \in WrapLists \cup {<<"w1">>}}
      \cup {Opt("Client", 0, FALSE, "client2"), Opt("Name", 0, FALSE, "svc.a")}

\* after NewService(ms...), for every short list of wrapper options
InitOfWrap ==
    /\ \E ms \in SeqsUpTo(WrapShapes, MaxBuild) :
         /\ Holds(newService(ms))
         /\ passed = PassedToNew(ms)
    /\ InitLife
    /\ InitWrap
    /\ InitLogger
    /\ once = FALSE
    /\ fx = <<>>
    /\ initCalls = 0
    /\ cmdAppName = [c \in Cmds |-> ""]
    /\ pluginEnv = <<"">>
    /\ alive = TRUE

\* a caller calls Init with one more wrapper option
CallInitWrap ==
    /\ Len(passed) < MaxBuild
    /\ \E m \in WrapShapes : InitCall(<<m>>)

NextWrap ==
    \/ CallInitWrap
    \/ IssueCall
    \/ Serve

SpecWrap == InitOfWrap /\ [][NextWrap]_vars

\* ------------------------------------------------------------- C12
\* w0(w1(...(wn-1(c)))): w0 outermost
Wrapped(ws, c) == [k \in 1..Len(ws) |-> Layer("wrap", ws[k])] \o c

\* the name newService read from the server: the last Name given to NewService
NameAtNew ==
    LET ks == {k \in Writes("Name") : passed[k].call = 0}
    IN  IF ks = {} THEN DefaultName
        ELSE passed[CHOOSE k \in ks : \A j \in ks : j <= k].m.v

\* the client the history of mutators prescribes after its first k entries,
\* c being the client after k - 1 of them
RECURSIVE ClientAfter(_, _)
ClientAfter(k, c) ==
    IF k > Len(passed) THEN (IF k = 1 \/ passed[k - 1].call = 0
                             THEN TraceCall(NameAtNew, FromService(NameAtNew, c)) ELSE c)
    ELSE LET m == passed[k].m
             c0 == IF k > 1 /\ passed[k - 1].call = 0 /\ passed[k].call > 0
                   THEN TraceCall(NameAtNew, FromService(NameAtNew, c)) ELSE c
             d == IF k = 1 /\ passed[k].call > 0
                  THEN TraceCall(NameAtNew, FromService(NameAtNew, c)) ELSE c0
         IN  ClientAfter(k + 1, IF m.op = "Client" THEN NewClient(m.v)
                                ELSE IF m.op = "WrapClient" THEN Wrapped(m.ws, d)
                                ELSE d)

\* the layers of kind wrap and client that an invocation entered / left, in order
RECURSIVE Visits(_, _)
Visits(tr, ev) ==
    IF tr = <<>> THEN <<>>
    ELSE IF Head(tr).ev = ev /\ Head(tr).kind \in {"wrap", "client"}
         THEN <<Layer(Head(tr).kind, Head(tr).name)>> \o Visits(Tail(tr), ev)
         ELSE Visits(Tail(tr), ev)

RECURSIVE UserLayers(_)
UserLayers(c) ==
    IF c = <<>> THEN <<>>
    ELSE IF Head(c).kind \in {"wrap", "client"} THEN <<Head(c)>> \o UserLayers(Tail(c))
         ELSE UserLayers(Tail(c))

Reverse(s) == [k \in 1..Len(s) |-> s[Len(s) + 1 - k]]

\* C12: WrapClient(w0, ..., wn-1) on a record holding client C yields
\* w0(w1(...(wn-1(C)))), for every n >= 0: an operation issued through the
\* client enters w0, w1, ..., wn-1 and then C, and its result passes back
\* through C, wn-1, ..., w0.
C12_WrapClientOrder ==
    /\ opts.Client = ClientAfter(1, DefaultClient)
    /\ rpc.op # "none" =>
         /\ Visits(rpc.tr, "enter") = UserLayers(rpc.via)
         /\ rpc.ret # Panicked => Visits(rpc.tr, "exit") = Reverse(UserLayers(rpc.via))

\* an Init call gave WrapClient(w0, w1, w2) and a Call through the result failed
C12_Witness ==
    /\ Len(passed) >= 1
    /\ passed[Len(passed)].m = OptW("WrapClient", <<"w0", "w1", "w2">>)
    /\ passed[Len(passed)].call > 0
    /\ rpc.op = "Call"
    /\ rpc.via = opts.Client
    /\ rpc.ret = InnerError
    /\ SubSeq(Visits(rpc.tr, "enter"), 1, 3)
         = <<Layer("wrap", "w0"), Layer("wrap", "w1"), Layer("wrap", "w2")>>

\* ------------------------------------------------------------- C13
\* the fields of the record that hold a reference to a subsystem (the
\* client is a chain of layers and is never empty)
RefFields ==
    {"Server", "Broker", "Registry", "Transport", "Store", "Runtime", "Auth", "Config",
     "Cmd", "Profile"}

\* no mutator given so far wrote nil
NoNilWritten == \A k \in 1..Len(passed) : passed[k].m.v # NilRef

NumberOf(op) == Cardinality(Writes(op))

\* the Init calls of the log made on instances of one kind
RECURSIVE OnKind(_, _)
OnKind(l, kind) ==
    IF l = <<>> THEN <<>>
    ELSE IF Head(l).kind = kind THEN <<Head(l)>> \o OnKind(Tail(l), kind)
         ELSE OnKind(Tail(l), kind)

\* what an Init call passing the one mutator m has to change
CrossStep(m) ==
    LET onClient == InitEv("client", opts.Client, m.op, m.v)
        onServer == InitEv("server", NewClient(opts.Server), m.op, m.v)
        onBroker == InitEv("broker", NewClient(opts.Broker), m.op, m.v)
    IN  /\ m.op = "Registry" =>
              /\ opts' = [opts EXCEPT !.Registry = m.v]
              /\ inits' = inits \o <<onClient, onServer, onBroker>>
        /\ m.op = "Broker" =>
              /\ opts' = [opts EXCEPT !.Broker = m.v]
              /\ inits' = inits \o <<onClient, onServer>>
        /\ m.op = "Transport" =>
              /\ opts' = [opts EXCEPT !.Transport = m.v]
              /\ inits' = inits \o <<onClient, onServer>>

\* C14: Registry(r) sets the Registry field to r and calls Init carrying r on
\* the record's client, server and broker; Broker(b) sets the Broker field and
\* calls Init on the client and the server only; Transport(t) sets the
\* Transport field and calls Init on the client and the server only; no other
\* field of the record is changed.
C14_CrossPropagation ==
    /\ [](/\ Len(OnKind(inits, "client"))
               = NumberOf("Registry") + NumberOf("Broker") + NumberOf("Transport")
          /\ Len(OnKind(inits, "server")) = Len(OnKind(inits, "client"))
          /\ Len(OnKind(inits, "broker")) = NumberOf("Registry")
          /\ \A k \in 1..Len(inits) : inits[k].opt \in {"Registry", "Broker", "Transport"})
    /\ [][Len(passed') = Len(passed) + 1 => CrossStep(passed'[Len(passed')].m)]_vars

\* NewService was given Client(client2) and an Init call Registry(registry2):
\* the decorated client2, the server and the broker were each handed registry2
C14_Witness ==
    /\ Len(passed) = 2
    /\ passed[1].m = Opt("Client", 0, FALSE, "client2")
    /\ passed[2].m = Opt("Registry", 0, FALSE, "registry2")
    /\ passed[2].call = 1
    /\ opts.Registry = "registry2"
    /\ inits = <<InitEv("client", Decorated(NewClient("client2")), "Registry", "registry2"),
                InitEv("server", NewClient(DefaultServer), "Registry", "registry2"),
                InitEv("broker", NewClient(DefaultBroker), "Registry", "registry2")>>

\* ------------------------------------------------------------- C15
\* the client chain has a layer of this kind
HasLayer(c, kind) == \E k \in 1..Len(c) : c[k].kind = kind

LayerOf(c, kind) == c[CHOOSE k \in 1..Len(c) : c[k].kind = kind]

\* C15: FromService adds its From-Service header to the outgoing context of
\* Call, Stream and Publish only when the key is absent from it; every key
\* already present keeps the caller's value; the request or message is
\* passed to the inner client unchanged.
C15_HeadersNoClobber ==
    rpc.op # "none" =>
      /\ \A k \in DOMAIN rpc.md0 : k \in DOMAIN rpc.md /\ rpc.md[k] = rpc.md0[k]
      /\ DOMAIN rpc.md = DOMAIN rpc.md0
                           \cup IF HasLayer(rpc.via, "FromService") THEN {FromServiceKey} ELSE {}
      /\ HasLayer(rpc.via, "FromService") /\ FromServiceKey \notin DOMAIN rpc.md0
           => rpc.md[FromServiceKey] = LayerOf(rpc.via, "FromService").name
      /\ rpc.req = rpc.req0

\* a Publish whose context already carried a From-Service header went
\* through the FromService decorator and reached the inner client with it
C15_Witness ==
    /\ rpc.op = "Publish"
    /\ HasLayer(rpc.via, "FromService")
    /\ \E e \in Range(rpc.tr) : e.ev = "enter" /\ e.kind = "FromService"
    /\ FromServiceKey \in DOMAIN rpc.md0
    /\ rpc.md0[FromServiceKey] = "caller"
    /\ rpc.md[FromServiceKey] = "caller"
    /\ LayerOf(rpc.via, "FromService").name # "caller"

\* ------------------------------------------------------------- C16
\* the layer of this kind ran its own code during the invocation, before
\* the innermost client was entered
ObservedBy(tr, kind) ==
    \E j, k \in 1..Len(tr) :
       /\ j < k
       /\ tr[j].ev = "enter" /\ tr[j].kind = kind
       /\ tr[k].ev = "enter" /\ tr[k].kind = "client"

\* C16 as stated: each of Call, Stream and Publish issued through the
\* service's client is observed by both fixed decorators before it reaches
\* the inner client.
C16_Original ==
    rpc.op # "none" /\ HasLayer(rpc.via, "FromService") /\ HasLayer(rpc.via, "TraceCall")
      => ObservedBy(rpc.tr, "FromService") /\ ObservedBy(rpc.tr, "TraceCall")

\* C16 (amended): the FromService decorator intercepts Call, Stream and
\* Publish; the TraceCall decorator intercepts Call only: a Stream or a
\* Publish passes through it to the inner client without being traced.
C16_DecoratorsIntercept ==
    rpc.op # "none" =>
      /\ HasLayer(rpc.via, "FromService") => ObservedBy(rpc.tr, "FromService")
      /\ HasLayer(rpc.via, "TraceCall") =>
           (ObservedBy(rpc.tr, "TraceCall") <=> rpc.op = "Call")
      /\ \A k \in 1..Len(rpc.tr) : rpc.tr[k].ev = "Tracer.Start" => rpc.op = "Call"

\* a Stream went through both decorators of a new service: it got the
\* header and no span
C16_Witness ==
    /\ rpc.op = "Stream"
    /\ HasLayer(rpc.via, "FromService") /\ HasLayer(rpc.via, "TraceCall")
    /\ ObservedBy(rpc.tr, "FromService")
    /\ ~ObservedBy(rpc.tr, "TraceCall")
    /\ FromServiceKey \in DOMAIN rpc.md
    /\ rpc.ret = Nil

\* ------------------------------------------------------------- C17
\* positions of the trace holding this step of a layer of this kind
At(tr, ev, kind) == {k \in 1..Len(tr) : tr[k].ev = ev /\ tr[k].kind = kind}

\* the invocation tr went through a tracing wrapper of kind `kind` around an
\* inner callee of kind `inner`: one span started before the callee was
\* entered; if the callee returned, the span finished after that, it was
\* annotated with the error exactly when the callee returned one, and the
\* wrapper returned what the callee returned
Traced(tr, ret, kind, inner) ==
    /\ Cardinality(At(tr, "Tracer.Start", kind)) = 1
    /\ \A s \in At(tr, "Tracer.Start", kind) : \A k \in At(tr, "enter", inner) : s < k
    /\ ret = Panicked => At(tr, "Tracer.Finish", kind) = {} /\ At(tr, "exit", inner) = {}
    /\ ret # Panicked =>
         /\ Cardinality(At(tr, "Tracer.Finish", kind)) = 1
         /\ \A f \in At(tr, "Tracer.Finish", kind) : \A k \in At(tr, "exit", inner) : k < f
         /\ \A s \in At(tr, "Tracer.Start", kind) : \A f \in At(tr, "Tracer.Finish", kind) :
              tr[s].name = tr[f].name
         /\ Cardinality(At(tr, "span.error", kind)) = IF ret # Nil THEN 1 ELSE 0
         /\ \A k \in At(tr, "span.error", kind) : tr[k].arg = ret
         /\ \A k \in At(tr, "exit", inner) : tr[k].arg = ret

\* the last operation was a Call through the TraceCall decorator
TracedCall == rpc.op = "Call" /\ HasLayer(rpc.via, "TraceCall")

\* the last request was served through TraceHandler
TracedServe == served.w = "TraceHandler"

\* C17 as stated: every invocation through a tracing wrapper, client-side
\* Call and server-side handler alike, starts exactly one span before
\* delegating, finishes it after the inner call returns, annotates it with
\* the error exactly when there is one, and returns the inner error.
C17_Original ==
    /\ TracedCall => Traced(rpc.tr, rpc.ret, "TraceCall", "client")
    /\ TracedServe => Traced(served.tr, served.ret, "handlerWrapper", "handler")

\* C17 (amended): as stated, for every Call through TraceCall and for every
\* handler invocation through TraceHandler whose endpoint does not begin
\* with "Debug."; for an endpoint that begins with "Debug." TraceHandler
\* starts no span and returns what the handler returns.
C17_SpanPerInvocation ==
    /\ TracedCall => Traced(rpc.tr, rpc.ret, "TraceCall", "client")
    /\ TracedServe /\ ~HasPrefixDebug(served.endpoint)
         => Traced(served.tr, served.ret, "handlerWrapper", "handler")
    /\ TracedServe /\ HasPrefixDebug(served.endpoint) =>
         /\ At(served.tr, "Tracer.Start", "handlerWrapper") = {}
         /\ At(served.tr, "Tracer.Finish", "handlerWrapper") = {}
         /\ \A k \in At(served.tr, "exit", "handler") : served.tr[k].arg = served.ret

\* a Call through TraceCall whose inner client returned an error: the span
\* was started, annotated and finished, and the error came back
C17_Witness ==
    /\ TracedCall
    /\ rpc.ret = InnerError
    /\ Cardinality(At(rpc.tr, "Tracer.Start", "TraceCall")) = 1
    /\ Cardinality(At(rpc.tr, "span.error", "TraceCall")) = 1
    /\ Cardinality(At(rpc.tr, "Tracer.Finish", "TraceCall")) = 1

\* ------------------------------------------------------------- C18
\* C18 as stated: HandlerStats records exactly one outcome per handler
\* invocation on every exit path (nil return, error return, panic) and
\* returns the inner error unchanged.
C18_Original ==
    served.w = "HandlerStats" =>
      /\ Cardinality(At(served.tr, "Stats.Record", "handlerWrapper")) = 1
      /\ served.ret # Panicked =>
           /\ \A k \in At(served.tr, "Stats.Record", "handlerWrapper") :
                served.tr[k].arg = served.ret
           /\ \A k \in At(served.tr, "exit", "handler") : served.tr[k].arg = served.ret

\* the handler panicked inside HandlerStats: nothing was recorded
C18_Witness ==
    /\ served.w = "HandlerStats"
    /\ served.ret = Panicked
    /\ At(served.tr, "enter", "handler") # {}
    /\ At(served.tr, "Stats.Record", "handlerWrapper") = {}

\* -------------------------------------------- server.Run: specification
\* the process runs server.Run on the default server, its logger configured
\* with any level
InitOfServerRun ==
    /\ Holds(newService(<<>>))
    /\ InitLife
    /\ InitWrap
    /\ InitInit
    /\ logLevel \in Levels

NextServerRun ==
    \/ ServerRunCall
    \/ ServerRunStart
    \/ ServerRunNoWait
    \/ ServerRunReceive
    \/ ServerRunStop
    \/ DeliverSignal

SpecServerRun == InitOfServerRun /\ [][NextServerRun]_vars

\* ------------------------------------------------------------- C19
\* C19 as stated: in every execution of server.Run in which Start succeeds,
\* the default server's Stop is not invoked until a signal has been
\* received on the notification channel, whatever the configured log level.
C19_Original ==
    call = "server.Run" =>
      (pc = "server.Stop" \/ Count(log, "Server.Stop") > 0 => Count(log, "<-ch") > 0)

\* with the logger at error level server.Run stopped the server it had
\* just started, although no signal was ever delivered
C19_Witness ==
    /\ call = "server.Run"
    /\ logLevel = "error"
    /\ sigCount = 0
    /\ Count(log, "Server.Start") = 1
    /\ Count(log, "Server.Stop") = 1
    /\ Count(log, "<-ch") = 0
    /\ pc = "done"

\* what does hold: with a level that admits Info, Stop follows a receive
C19_WaitsWhenInfoEnabled ==
    call = "server.Run" /\ V(InfoLevel) =>
      (pc = "server.Stop" \/ Count(log, "Server.Stop") > 0 => Count(log, "<-ch") > 0)

\* ------------------------------------------------------------- C20
\* the tables the store was initialised with
StoreTables == {fx[k].arg : k \in {j \in 1..Len(fx) : fx[j].ev = "Store.Init"}}

\* C20 as stated: the first Init names the store namespace after the
\* service name: the table passed to Store.Init is the instance's server
\* name as that Init's mutators left it, also when the instance's Cmd
\* already carries a non-empty application name.
C20_Original ==
    initCalls = 1 => \A t \in StoreTables : t = serverName[opts.Server]

\* the first Init of an instance whose Cmd was already named "other.app"
\* returned: the store's table is that name, not the server's
C20_Witness ==
    /\ initCalls = 1
    /\ cmdAppName[opts.Cmd] = "other.app"
    /\ serverName[opts.Server] = "svc.a"
    /\ StoreTables = {"other.app"}

\* what does hold: the table is the application name the Cmd carries after
\* the first Init, which is the server name only if the Cmd had none before
C20_TableIsAppName ==
    initCalls = 1 => \A t \in StoreTables : t = cmdAppName[opts.Cmd]

\* ------------------------------- service.go: Init called concurrently
\* Init takes no lock of its own: each goroutine's loop writes s.opts one
\* mutator at a time, and only the body of s.once.Do is serialised, by
\* sync.Once.  One step below is one mutator, or one statement of the body.
ConcShapes ==
    {Opt("Name", 0, FALSE, n) : n \in Names} \cup {Opt("Cmd", 0, FALSE, "cmd2")}

\* the mutators handed to Init calls and not yet applied
RECURSIVE MutatorsLeft(_)
MutatorsLeft(T) ==
    IF T = {} THEN 0
    ELSE LET t == CHOOSE u \in T : TRUE
         IN  Len(thr[t].ms) + MutatorsLeft(T \ {t})

BodySteps == {"body.plugins", "body.name", "body.cmd", "body.store"}

\* some goroutine is inside s.once.Do's function and holds once's mutex
InBody == \E u \in Threads : thr[u].pc \in BodySteps

\* a goroutine calls s.Init(ms...)
ThreadCallInit(t) ==
    /\ alive
    /\ thr[t].pc = "idle"
    /\ \E ms \in SeqsUpTo(ConcShapes, MaxOpts - Len(passed) - MutatorsLeft(Threads)) :
         thr' = [thr EXCEPT ![t] = [pc |-> "opts", ms |-> ms]]
    /\ UNCHANGED <<opts, serverName, lifeVars, initVars, wireVars, wrapVars, logLevel,
                   flight, authCall>>

\* Init: for _, o := range opts { o(&s.opts) }, one iteration
ThreadApply(t) ==
    /\ alive
    /\ thr[t].pc = "opts"
    /\ thr[t].ms # <<>>
    /\ LET st == Apply(Head(thr[t].ms), Current)
       IN  /\ opts' = st.o
           /\ serverName' = st.sn
           /\ inits' = st.ini
           /\ hdlrWrappers' = st.hw
           /\ subWrappers' = st.sw
    /\ passed' = Append(passed, [call |-> t, m |-> Head(thr[t].ms)])
    /\ thr' = [thr EXCEPT ![t].ms = Tail(@)]
    /\ UNCHANGED <<lifeVars, once, fx, initCalls, cmdAppName, pluginEnv, alive,
                   wrapVars, logLevel, flight, authCall>>

\* mutant of ThreadOnceDone: Do returns while the function is still running
ThreadOnceDone_NoWait(t) ==
    /\ alive
    /\ thr[t].pc = "opts"
    /\ thr[t].ms = <<>>
    /\ once \/ InBody
    /\ thr' = [thr EXCEPT ![t].pc = "returned"]
    /\ initCalls' = initCalls + 1
    /\ UNCHANGED <<opts, serverName, lifeVars, once, fx, passed, cmdAppName, pluginEnv,
                   alive, wireVars, wrapVars, logLevel, flight, authCall>>

\* Init: s.once.Do(f) when f has already run: Do returns at once
ThreadOnceDone(t) ==
    /\ alive
    /\ thr[t].pc = "opts"
    /\ thr[t].ms = <<>>
    /\ once
    /\ thr' = [thr EXCEPT ![t].pc = "returned"]
    /\ initCalls' = initCalls + 1
    /\ UNCHANGED <<opts, serverName, lifeVars, once, fx, passed, cmdAppName, pluginEnv,
                   alive, wireVars, wrapVars, logLevel, flight, authCall>>

\* Init: s.once.Do(f), the first caller: it runs f; a caller arriving while
\* f runs waits on once's mutex (no step of it is enabled)
ThreadOnceEnter(t) ==
    /\ alive
    /\ thr[t].pc = "opts"
    /\ thr[t].ms = <<>>
    /\ ~once
    /\ ~InBody
    /\ thr' = [thr EXCEPT ![t].pc = "body.plugins"]
    /\ UNCHANGED <<opts, serverName, lifeVars, initVars, wireVars, wrapVars, logLevel,
                   flight, authCall>>

\* once body: the MICRO_PLUGIN loop; a failing Load or Init ends the process
ThreadBodyPlugins(t) ==
    /\ alive
    /\ thr[t].pc = "body.plugins"
    /\ LET cs == PluginCalls(Plugins(pluginEnv))
       IN  \E f \in 0..Len(cs) :
             LET m == IF f = 0 THEN Len(cs) ELSE f
             IN  /\ fx' = fx \o [k \in 1..m |-> Fx(cs[k].ev, cs[k].arg, k = f, t)]
                 /\ alive' = (f = 0)
                 /\ thr' = IF f = 0 THEN [thr EXCEPT ![t].pc = "body.name"] ELSE thr
    /\ UNCHANGED <<opts, serverName, lifeVars, once, initCalls, passed, cmdAppName,
                   pluginEnv, wireVars, wrapVars, logLevel, flight, authCall>>

\* once body: if len(s.opts.Cmd.App().Name) == 0 { ...Name = s.Server().Options().Name }
ThreadBodyName(t) ==
    /\ alive
    /\ thr[t].pc = "body.name"
    /\ cmdAppName' = [cmdAppName EXCEPT ![opts.Cmd] = AppName(opts, serverName)]
    /\ thr' = [thr EXCEPT ![t].pc = "body.cmd"]
    /\ UNCHANGED <<opts, serverName, lifeVars, once, fx, initCalls, passed, pluginEnv,
                   alive, wireVars, wrapVars, logLevel, flight, authCall>>

\* once body: if err := s.opts.Cmd.Init(...); err != nil { logger.Fatal(err) }
ThreadBodyCmdInit(t) ==
    /\ alive
    /\ thr[t].pc = "body.cmd"
    /\ \E failed \in BOOLEAN :
         /\ fx' = Append(fx, Fx("Cmd.Init", opts.Cmd, failed, t))
         /\ alive' = ~failed
         /\ thr' = IF failed THEN thr ELSE [thr EXCEPT ![t].pc = "body.store"]
    /\ UNCHANGED <<opts, serverName, lifeVars, once, initCalls, passed, cmdAppName,
                   pluginEnv, wireVars, wrapVars, logLevel, flight, authCall>>

\* once body: name := s.opts.Cmd.App().Name; s.opts.Store.Init(store.Table(name));
\* f returns, once is done, and Init returns
ThreadBodyStore(t) ==
    /\ alive
    /\ thr[t].pc = "body.store"
    /\ fx' = Append(fx, Fx("Store.Init", cmdAppName[opts.Cmd], FALSE, t))
    /\ once' = TRUE
    /\ thr' = [thr EXCEPT ![t].pc = "returned"]
    /\ initCalls' = initCalls + 1
    /\ UNCHANGED <<opts, serverName, lifeVars, passed, cmdAppName, pluginEnv, alive,
                   wireVars, wrapVars, logLevel, flight, authCall>>

NextConc ==
    \/ \E t \in Threads : ThreadCallInit(t)
    \/ \E t \in Threads : ThreadApply(t)
    \/ \E t \in Threads : ThreadOnceDone(t)
    \/ \E t \in Threads : ThreadOnceEnter(t)
    \/ \E t \in Threads : ThreadBodyPlugins(t)
    \/ \E t \in Threads : ThreadBodyName(t)
    \/ \E t \in Threads : ThreadBodyCmdInit(t)
    \/ \E t \in Threads : ThreadBodyStore(t)

\* after NewService(), as in InitOfInit; no goroutine has called Init yet
SpecConc == InitOfInit /\ [][NextConc]_vars

\* ------------------------------------------------------------- C21
\* C21: with several goroutines calling Init on one instance, each one-time
\* side effect is executed at most once and all of them by the same call,
\* the body has run to its end once s.once is done, and no Init call has
\* returned before the body ended (unless the body ended the process);
\* the mutators of the calls are applied with no exclusion, each write
\* falling wherever the scheduler puts it, also between two statements of
\* the body (C21_Witness).
C21_OnceUnderConcurrency ==
    /\ \A j, k \in 1..Len(fx) :
         /\ fx[j].call = fx[k].call
         /\ fx[j].ev = fx[k].ev /\ fx[j].arg = fx[k].arg => j = k
    /\ Count(fx, "Cmd.Init") <= 1
    /\ Count(fx, "Store.Init") <= 1
    /\ once => Count(fx, "Store.Init") = 1
    /\ \A t \in Threads : thr[t].pc = "returned" => once /\ Count(fx, "Store.Init") = 1

\* both calls have returned; the write of Cmd(cmd2) by one fell between the
\* body's naming of the default Cmd and its read of the table name, which
\* the other call's body took, empty, from cmd2
C21_Witness ==
    /\ \A t \in Threads : thr[t].pc = "returned"
    /\ \E t, u \in Threads :
         /\ t # u
         /\ \E k \in 1..Len(passed) : passed[k].call = u /\ passed[k].m.op = "Cmd"
         /\ \E k \in 1..Len(passed) : passed[k].call = t /\ passed[k].m.op = "Name"
         /\ \E k \in 1..Len(fx) :
              fx[k].ev = "Store.Init" /\ fx[k].arg = "" /\ fx[k].call = t
    /\ cmdAppName[DefaultCmd] # ""
    /\ cmdAppName["cmd2"] = ""

\* --------------------------- wrapper.go: operations issued concurrently
\* An operation on its way down the client chain, one layer a step.
\* flight[c].at is the layer about to run; past the last layer the
\* operation has reached the network.  The decorators' captured state,
\* f.headers and the trace wrapper's name and tracer, is the layer
\* itself, held in opts.Client.
InFlight(c) == flight[c].op # "none" /\ flight[c].at <= Len(opts.Client)

\* a caller calls service.Client().Call / Stream / Publish with its context
FlightBegin(c) ==
    /\ alive
    /\ ~InFlight(c)
    /\ \E op \in Ops, md \in Contexts :
         flight' = [flight EXCEPT ![c] = [op |-> op, md0 |-> md, at |-> 1, md |-> md]]
    /\ UNCHANGED <<opts, serverName, lifeVars, initVars, wireVars, wrapVars, logLevel,
                   thr, authCall>>

\* mutant of FlightStep: the context setHeaders derives is shared by all
\* the operations under way
FlightStep_SharedContext(c) ==
    /\ alive
    /\ InFlight(c)
    /\ LET l == opts.Client[flight[c].at]
           md == IF l.kind = "FromService" /\ Overrides(l.kind, flight[c].op)
                 THEN setHeaders(l, flight[c].md)
                 ELSE flight[c].md
       IN  flight' = [d \in Callers |->
                        IF d = c THEN [flight[c] EXCEPT !.at = @ + 1, !.md = md]
                        ELSE IF InFlight(d) THEN [flight[d] EXCEPT !.md = md]
                        ELSE flight[d]]
    /\ UNCHANGED <<opts, serverName, lifeVars, initVars, wireVars, wrapVars, logLevel,
                   thr, authCall>>

\* the layer the operation is at runs: fromServiceWrapper derives a new
\* context with setHeaders and calls its inner client with it; every other
\* layer hands the context it was given to its inner client
FlightStep(c) ==
    /\ alive
    /\ InFlight(c)
    /\ LET l == opts.Client[flight[c].at]
           md == IF l.kind = "FromService" /\ Overrides(l.kind, flight[c].op)
                 THEN setHeaders(l, flight[c].md)
                 ELSE flight[c].md
       IN  flight' = [flight EXCEPT ![c] = [@ EXCEPT !.at = @ + 1, !.md = md]]
    /\ UNCHANGED <<opts, serverName, lifeVars, initVars, wireVars, wrapVars, logLevel,
                   thr, authCall>>

NextCalls ==
    \/ \E c \in Callers : FlightBegin(c)
    \/ \E c \in Callers : FlightStep(c)

\* a service built by NewService() or NewService(m), its client used by
\* two callers
InitOfCalls ==
    /\ \E ms \in SeqsUpTo(WrapShapes, 1) :
         /\ Holds(newService(ms))
         /\ passed = PassedToNew(ms)
    /\ InitLife
    /\ InitWrap
    /\ InitLogger
    /\ once = FALSE
    /\ fx = <<>>
    /\ initCalls = 0
    /\ cmdAppName = [c \in Cmds |-> ""]
    /\ pluginEnv = <<"">>
    /\ alive = TRUE

SpecCalls == InitOfCalls /\ [][NextCalls]_vars

\* ------------------------------------------------------------- C22
\* the FromService layers an operation has passed
PassedFromService(c) ==
    {k \in 1..Len(opts.Client) :
        /\ k < flight[c].at
        /\ opts.Client[k].kind = "FromService"
        /\ Overrides("FromService", flight[c].op)}

\* the outgoing context of c's operation is the context c issued it with
\* plus, where c gave none, the From-Service header of the decorator it
\* has passed
OwnContext(c) ==
    LET f == flight[c] IN
    f.op # "none" =>
      /\ \A k \in DOMAIN f.md0 : k \in DOMAIN f.md /\ f.md[k] = f.md0[k]
      /\ \A k \in DOMAIN f.md \ DOMAIN f.md0 :
           /\ k = FromServiceKey
           /\ \E j \in PassedFromService(c) : f.md[k] = opts.Client[j].name
      /\ PassedFromService(c) # {} => FromServiceKey \in DOMAIN f.md

\* C22: no step of a Call, Stream or Publish through the client decorators,
\* however the steps of concurrent operations interleave, changes the
\* client chain: the header set FromService captured and the name
\* TraceCall captured stay as they were; and the headers injected into an
\* operation appear in that operation's outgoing context only, every
\* other operation's context holding its caller's metadata and its own
\* injection.
C22_DecoratorsImmutable ==
    /\ [](\A c \in Callers : OwnContext(c))
    /\ [][opts' = opts /\ serverName' = serverName]_vars

\* two operations are under way at once, both past the FromService
\* decorator: the one issued with X-User carries X-User and the header,
\* the one issued without metadata carries the header alone
C22_Witness ==
    /\ \A c \in Callers : InFlight(c) /\ PassedFromService(c) # {}
    /\ flight["c1"].md0 = [k \in {"X-User"} |-> "u1"]
    /\ DOMAIN flight["c1"].md = {"X-User", FromServiceKey}
    /\ flight["c2"].md0 = <<>>
    /\ DOMAIN flight["c2"].md = {FromServiceKey}
    /\ flight["c1"].op # flight["c2"].op

\* ------------------------- service.go: hooks that may never return
HookKinds == {"BeforeStart", "AfterStart", "BeforeStop", "AfterStop"}

\* the loop the caller is in, when its next iteration calls a hook
HookLoop ==
    [p \in {"Start.before", "Start.after", "Stop.before", "Stop.after"} |->
        CASE p = "Start.before" -> "BeforeStart"
          [] p = "Start.after"  -> "AfterStart"
          [] p = "Stop.before"  -> "BeforeStop"
          [] p = "Stop.after"   -> "AfterStop"]

\* mutant of HookBlocks: the loop goes on to the next hook
HookBlocks_Continues ==
    /\ pc \in DOMAIN HookLoop
    /\ i <= Len(opts[HookLoop[pc]])
    /\ log' = Append(log, Ev("blocks", opts[HookLoop[pc]][i], FALSE))
    /\ i' = i + 1
    /\ UNCHANGED <<opts, serverName, serverUp, ctxDone, call, pc, gerr, startRet, stopRet,
                   runRet, profDeferred, notified, ch, sigCount, initVars, extVars>>

\* Start / Stop: fn() is called in one of the four loops and never
\* returns: the goroutine stays inside fn
HookBlocks ==
    /\ pc \in DOMAIN HookLoop
    /\ i <= Len(opts[HookLoop[pc]])
    /\ log' = Append(log, Ev("blocks", opts[HookLoop[pc]][i], FALSE))
    /\ pc' = "blocked"
    /\ UNCHANGED <<opts, serverName, serverUp, ctxDone, call, i, gerr, startRet, stopRet,
                   runRet, profDeferred, notified, ch, sigCount, initVars, extVars>>

HookShapes == {Opt(op, 0, FALSE, "") : op \in HookKinds}

\* a caller calls Init, with some more hooks or, the first time, with nothing
CallInitHooks ==
    /\ initCalls < MaxInits
    /\ \E ms \in SeqsUpTo(HookShapes, MaxOpts - HooksRegistered) :
         /\ ms # <<>> \/ ~once
         /\ InitCall(Number(ms, HooksRegistered))

\* after NewService(hooks..., Context(ctx)) with a cancellable context
InitOfLifecycle ==
    /\ \E hs \in SeqsUpTo(HookShapes, MaxOpts) :
         LET ms == Number(hs, 0) \o <<Opt("Context", 0, FALSE, Cancellable)>>
         IN  /\ Holds(newService(ms))
             /\ passed = PassedToNew(ms)
    /\ InitLife
    /\ InitWrap
    /\ InitLogger
    /\ once = FALSE
    /\ fx = <<>>
    /\ initCalls = 0
    /\ cmdAppName = [c \in Cmds |-> ""]
    /\ pluginEnv = <<"">>
    /\ alive = TRUE

\* Init, Start, Stop and Run called one after another in any order, the
\* context cancelled at any time, any hook returning or not
NextLifecycle ==
    \/ CallInitHooks
    \/ CallStart
    \/ CallStop
    \/ CallRun
    \/ RunProfile
    \/ StartBeforeHook
    \/ StartServer
    \/ StartAfterHook
    \/ StartReturnNil
    \/ RunStarted
    \/ RunSelectContext
    \/ StopBeforeHook
    \/ StopServer
    \/ StopAfterHook
    \/ StopReturnGerr
    \/ RunReturn
    \/ CancelContext
    \/ HookBlocks

SpecLifecycle == InitOfLifecycle /\ [][NextLifecycle]_vars

\* Go's select proceeds once one of its cases is ready.
FairSpecLifecycle == SpecLifecycle /\ WF_vars(RunSelectContext)

\* ------------------------------------------------------------- C23
\* the hooks of one kind in the order their mutators were passed, to
\* NewService (call 0) and to the Init calls after it
Registered(kind) == FnsOf(PassedOf(passed, {kind}))

\* the hooks of one kind the current call has called, in the order of the
\* calls, the one that did not return included
RECURSIVE InvokedOf(_, _)
InvokedOf(s, kind) ==
    IF s = <<>> THEN <<>>
    ELSE IF Head(s).ev = kind \/ (Head(s).ev = "blocks" /\ Head(s).id \in Range(opts[kind]))
         THEN <<Head(s).id>> \o InvokedOf(Tail(s), kind)
         ELSE InvokedOf(Tail(s), kind)

\* C23: the hooks of each kind are called one after another by the one
\* goroutine running Start or Stop, in the order in which the four
\* mutators registered them over NewService and every later Init; and
\* once a hook does not return nothing more happens in the call: no
\* later hook is called, the server is neither started nor stopped, and
\* the call never returns.
C23_HooksInOrderAndBlocking ==
    /\ [](\A kind \in HookKinds :
            /\ opts[kind] = Registered(kind)
            /\ IsPrefix(InvokedOf(log, kind), Registered(kind)))
    /\ [](\A k \in 1..Len(log) : log[k].ev = "blocks" => k = Len(log) /\ pc = "blocked")
    /\ [][pc = "blocked" => pc' = "blocked" /\ log' = log /\ serverUp' = serverUp]_vars

\* the second of two before-start hooks, one registered with NewService
\* and one by Init, does not return: Run has called the first, then the
\* second, and the server has not been started
C23_Witness ==
    /\ call = "Run"
    /\ pc = "blocked"
    /\ Len(opts.BeforeStart) = 2
    /\ \E j, k \in 1..Len(passed) :
         /\ j < k
         /\ passed[j].call = 0 /\ passed[j].m.op = "BeforeStart"
         /\ passed[k].call = 1 /\ passed[k].m.op = "BeforeStart"
         /\ InvokedOf(log, "BeforeStart") = <<passed[j].m.fn, passed[k].m.fn>>
    /\ log[Len(log)].ev = "blocks"
    /\ Count(log, "Server.Start") = 0
    /\ ~serverUp

\* ------------------------- options.go: WrapHandler and WrapSubscriber
HandlerNames == <<"h0", "h1", "h2", "h3">>
SubscriberNames == <<"s0", "s1", "s2", "s3">>

\* the options a caller builds with server-side wrappers: WrapHandler and
\* WrapSubscriber with no, one or several wrappers, and Server
ServerWrapShapes ==
    {OptW("WrapHandler", SubSeq(HandlerNames, 1, n)) : n \in 0..MaxWrap}
      \cup {OptW("WrapSubscriber", SubSeq(SubscriberNames, 1, n)) : n \in 0..MaxWrap}
      \cup {Opt("Server", 0, FALSE, s) : s \in Servers}

\* after NewService(ms...), for every short list of these options
InitOfServerWrap ==
    /\ \E ms \in SeqsUpTo(ServerWrapShapes, MaxBuild) :
         /\ Holds(newService(ms))
         /\ passed = PassedToNew(ms)
    /\ InitLife
    /\ InitWrap
    /\ InitLogger
    /\ once = FALSE
    /\ fx = <<>>
    /\ initCalls = 0
    /\ cmdAppName = [c \in Cmds |-> ""]
    /\ pluginEnv = <<"">>
    /\ alive = TRUE

\* a caller calls Init with one more of these options
CallInitServerWrap ==
    /\ Len(passed) < MaxBuild
    /\ \E m \in ServerWrapShapes : InitCall(<<m>>)

SpecServerWrap == InitOfServerWrap /\ [][CallInitServerWrap]_vars

\* ------------------------------------------------------------- C24
\* the wrappers of the options named op in the history h, in the order
\* they were passed
RECURSIVE WrappersPassed(_, _)
WrappersPassed(h, op) ==
    IF h = <<>> THEN <<>>
    ELSE (IF Head(h).m.op = op THEN Head(h).m.ws ELSE <<>>) \o WrappersPassed(Tail(h), op)

AtNew(p) == p.call = 0

AtInit(p) == p.call > 0

Running == call = "Run" /\ pc = "Run.select"

Stopped == call = "Run" /\ pc = "done"

\* C25 as stated: an instance is Running only after Init (never straight
\* from Unstarted), and once Stopped it is never Running again.
C25_Original ==
    /\ [](Running => once)
    /\ [](Stopped => [](~Running))

\* C25, amended: Run is accepted whenever no call is in progress, on an
\* instance Init was never called on and on one whose Run has returned
\* alike; an instance is Running without having been Initialized, and
\* Init may first be called on a Running-and-Stopped instance.
C25_RunKeepsNoState ==
    /\ CanCall => ENABLED CallRun
    /\ Running => serverUp /\ Count(log, "Server.Start") = 1

\* Run, on an instance Init was never called on, has started the server
\* and waits for the shutdown event
C25_Witness ==
    /\ Running
    /\ ~once
    /\ initCalls = 0
    /\ serverUp

\* the second half of C25 as stated, by itself: it fails too, a second Run
\* after the first has returned starts the service again
C25_NeverRunningAgain == [](Stopped => [](~Running))

\* ------------------------------------------------------------- C26
\* the place of each event of Run in the order the claim gives
RunRank ==
    [e \in {"Server.Handle", "Profile.Start", "Start", "BeforeStart", "Server.Start",
            "AfterStart", "Notify", "<-ch", "<-Done", "Stop", "BeforeStop",
            "Server.Stop", "AfterStop", "Profile.Stop"} |->
        CASE e = "Server.Handle" -> 1
          [] e = "Profile.Start" -> 2
          [] e = "Start"         -> 3
          [] e = "BeforeStart"   -> 4
          [] e = "Server.Start"  -> 5
          [] e = "AfterStart"    -> 6
          [] e = "Notify"        -> 7
          [] e \in {"<-ch", "<-Done"} -> 8
          [] e = "Stop"          -> 9
          [] e = "BeforeStop"    -> 10
          [] e = "Server.Stop"   -> 11
          [] e = "AfterStop"     -> 12
          [] e = "Profile.Stop"  -> 13]

Failed(s, ev) == \E k \in 1..Len(s) : s[k].ev = ev /\ s[k].err

\* C26: in every execution of Run the debug handler is registered first
\* and the events that follow come in the order profiler Start,
\* before-start hooks, server Start, after-start hooks, the wait for the
\* shutdown event, before-stop hooks, server Stop, after-stop hooks,
\* profiler Stop, each phase at most once; Stop is invoked only after Start
\* has returned nil, with every start hook called and the server started,
\* also when the context was cancelled before; after a failed Start no
\* part of Stop runs; after a failed profiler Start the server is not
\* started.
C26_RunEventOrder ==
    call = "Run" =>
      /\ log[1].ev = "Server.Handle"
      /\ \A k \in 1..Len(log) : log[k].ev \in DOMAIN RunRank
      /\ \A j, k \in 1..Len(log) : j < k => RunRank[log[j].ev] <= RunRank[log[k].ev]
      /\ \A e \in {"Server.Handle", "Profile.Start", "Start", "Server.Start", "Stop",
                   "Server.Stop", "Profile.Stop"} : Count(log, e) <= 1
      /\ Count(log, "<-ch") + Count(log, "<-Done") <= 1
      /\ Count(log, "Stop") = 1 =>
           /\ startRet = Nil
           /\ Count(log, "<-ch") + Count(log, "<-Done") = 1
           /\ Count(log, "BeforeStart") = Len(opts.BeforeStart)
           /\ Count(log, "Server.Start") = 1
           /\ Count(log, "AfterStart") = Len(opts.AfterStart)
           /\ ~Failed(log, "BeforeStart") /\ ~Failed(log, "Server.Start")
           /\ ~Failed(log, "AfterStart")
      /\ startRet \notin {Nil, NotReturned} =>
           /\ runRet \in {NotReturned, startRet}
           /\ \A e \in {"Notify", "<-ch", "<-Done", "Stop", "BeforeStop", "Server.Stop",
                        "AfterStop"} : Count(log, e) = 0
      /\ Failed(log, "Profile.Start") =>
           /\ \A e \in {"Start", "BeforeStart", "Server.Start", "AfterStart"} :
                Count(log, e) = 0
           /\ runRet = Err("Profile.Start", 0)
      /\ (opts.Profile # NoProfile /\ pc # "Run.profile") => log[2].ev = "Profile.Start"

\* Run has returned nil on a service with a profiler, one hook of three of
\* the kinds and a context that was cancelled: every phase is in the log,
\* in the claim's order
C26_Witness ==
    /\ call = "Run"
    /\ pc = "done"
    /\ runRet = Nil
    /\ ctxDone
    /\ [k \in 1..Len(log) |-> log[k].ev] =
         <<"Server.Handle", "Profile.Start", "Start", "BeforeStart", "Server.Start",
           "AfterStart", "<-Done", "Stop", "BeforeStop", "Server.Stop", "Profile.Stop">>

\* ------------------------------------ wrapper.go: authWrapper.Call
AuthorizationKey == "Authorization"
NamespaceKey == "Micro-Namespace"

\* auth.BearerScheme + token
Bearer(token) == <<"Bearer ", token>>

\* metadata.Get(ctx, key): whether the context's metadata holds key
Get(md, key) == key \in DOMAIN md

\* metadata.Set(ctx, key, val): a context whose metadata holds key -> val
Set(md, key, val) == [k \in DOMAIN md \cup {key} |-> IF k = key THEN val ELSE md[k]]

\* a.Client.Call(ctx, req, rsp, opts...): the contexts the inner client was
\* called with, and what authWrapper.Call returned
InnerCall(md, out) == [sent |-> <<md>>, ret |-> out]

\* mutant of authWrapperCall: a header already present is not looked at
authWrapperCall_AlwaysToken(md, serviceToken, aa, out) ==
    IF aa.nil THEN InnerCall(md, out)
    ELSE LET ctx == IF ~Get(md, NamespaceKey) THEN Set(md, NamespaceKey, aa.Namespace)
                    ELSE md
         IN  IF ~aa.Token.nil /\ ~aa.Token.Expired
             THEN InnerCall(Set(ctx, AuthorizationKey, Bearer(aa.Token.AccessToken)), out)
             ELSE InnerCall(ctx, out)

\* authWrapper.Call(ctx, req, rsp, opts...): md the metadata of ctx,
\* serviceToken the call option, aa what a.auth() returns, out what the
\* inner client's Call does
authWrapperCall(md, serviceToken, aa, out) ==
    IF Get(md, AuthorizationKey) /\ ~serviceToken THEN InnerCall(md, out)
    ELSE IF aa.nil THEN InnerCall(md, out)
    ELSE LET ctx == IF ~Get(md, NamespaceKey) THEN Set(md, NamespaceKey, aa.Namespace)
                    ELSE md
         IN  IF ~aa.Token.nil /\ ~aa.Token.Expired
             THEN InnerCall(Set(ctx, AuthorizationKey, Bearer(aa.Token.AccessToken)), out)
             ELSE InnerCall(ctx, out)

\* the contexts a caller calls with: each reserved header present or not,
\* beside a header of the caller's own
AuthContexts ==
    {[k \in K \cup {"X-User"} |->
        CASE k = AuthorizationKey -> Bearer("user")
          [] k = NamespaceKey     -> "ns.user"
          [] k = "X-User"         -> "u1"] : K \in SUBSET {AuthorizationKey, NamespaceKey}}

\* what a.auth() returns: nil, or a provider with a namespace and no token,
\* an expired token or a valid one
NoToken == [nil |-> TRUE, AccessToken |-> "", Expired |-> FALSE]

Auths ==
    {[nil |-> TRUE, Namespace |-> "", Token |-> NoToken]}
      \cup {[nil |-> FALSE, Namespace |-> ns, Token |-> tk] :
              ns \in {"ns.a", "ns.b"},
              tk \in {NoToken} \cup {[nil |-> FALSE, AccessToken |-> "t1", Expired |-> x] :
                                        x \in BOOLEAN}}

\* a caller makes a Call through an authWrapper
AuthCall ==
    /\ alive
    /\ \E md \in AuthContexts, serviceToken \in BOOLEAN, aa \in Auths, out \in Outcomes :
         authCall' = [done |-> TRUE,
                      in   |-> [md |-> md, serviceToken |-> serviceToken, aa |-> aa,
                                out |-> out],
                      out  |-> authWrapperCall(md, serviceToken, aa, out)]
    /\ UNCHANGED <<opts, serverName, lifeVars, initVars, wireVars, wrapVars, logLevel,
                   thr, flight>>

InitOfAuth ==
    /\ Holds(newService(<<>>))
    /\ InitLife
    /\ InitWrap
    /\ InitLogger
    /\ InitInit

SpecAuth == InitOfAuth /\ [][AuthCall]_vars

\* ------------------------------------------------------------- C27
\* C27: authWrapper.Call calls the inner client's Call exactly once and
\* returns what it returned; the context it passes on differs from the
\* caller's in the Authorization and Micro-Namespace headers at most; an
\* Authorization header the caller set is passed on as it was unless the
\* ServiceToken option is set; a Micro-Namespace header the caller set is
\* always passed on as it was; and Authorization is set, to the bearer
\* token, only when the auth provider is not nil and its token is neither
\* nil nor expired.
C27_AuthHeadersReserved ==
    authCall.done =>
      LET md0 == authCall.in.md
          aa == authCall.in.aa
          valid == ~aa.nil /\ ~aa.Token.nil /\ ~aa.Token.Expired
          sent == authCall.out.sent
      IN  /\ Len(sent) = 1
          /\ authCall.out.ret = authCall.in.out
          /\ DOMAIN md0 \subseteq DOMAIN sent[1]
          /\ DOMAIN sent[1] \subseteq DOMAIN md0 \cup {AuthorizationKey, NamespaceKey}
          /\ \A k \in DOMAIN md0 \ {AuthorizationKey} : sent[1][k] = md0[k]
          /\ (Get(md0, AuthorizationKey) /\ ~authCall.in.serviceToken) => sent[1] = md0
          /\ (Get(sent[1], AuthorizationKey)
                /\ (~Get(md0, AuthorizationKey) \/ sent[1][AuthorizationKey] # md0[AuthorizationKey]))
               => /\ valid
                  /\ sent[1][AuthorizationKey] = Bearer(aa.Token.AccessToken)
          /\ (valid /\ (~Get(md0, AuthorizationKey) \/ authCall.in.serviceToken))
               => sent[1][AuthorizationKey] = Bearer(aa.Token.AccessToken)
          /\ (~Get(md0, NamespaceKey) /\ Get(sent[1], NamespaceKey))
               => ~aa.nil /\ sent[1][NamespaceKey] = aa.Namespace

\* a call with the caller's own Authorization and Micro-Namespace headers
\* and the ServiceToken option, the provider holding a valid token: the
\* Authorization header was replaced, the namespace kept, and the inner
\* client's error returned
C27_Witness ==
    /\ authCall.done
    /\ authCall.in.serviceToken
    /\ Get(authCall.in.md, AuthorizationKey)
    /\ Get(authCall.in.md, NamespaceKey)
    /\ authCall.in.md[AuthorizationKey] = Bearer("user")
    /\ authCall.in.md[NamespaceKey] = "ns.user"
    /\ authCall.out.sent[1][AuthorizationKey] = Bearer("t1")
    /\ authCall.out.sent[1][NamespaceKey] = "ns.user"
    /\ authCall.in.aa.Namespace = "ns.a"
    /\ authCall.out.ret = InnerError

\* ------------------------------------------------------------- C28
\* the last Client mutator of the history, 0 when there is none
LastClient == IF Writes("Client") = {} THEN 0 ELSE LastWrite("Client")

\* the mutators passed after the last Client mutator
SinceClient == SubSeq(passed, LastClient + 1, Len(passed))

\* the layers the WrapClient options of h put on a client: the layers of a
\* later option outside those of an earlier one, the wrappers of one option
\* in list order
RECURSIVE LayersOf(_)
LayersOf(h) ==
    IF h = <<>> THEN <<>>
    ELSE LayersOf(Tail(h))
           \o (IF Head(h).m.op = "WrapClient" THEN Wrapped(Head(h).m.ws, <<>>) ELSE <<>>)

\* the layers an invocation entered, in order
RECURSIVE Entered(_)
Entered(tr) ==
    IF tr = <<>> THEN <<>>
    ELSE IF Head(tr).ev = "enter"
         THEN <<Layer(Head(tr).kind, Head(tr).name)>> \o Entered(Tail(tr))
         ELSE Entered(Tail(tr))

\* C28: the client chain is ordered by the time each option ran.  From the
\* outside in: the wrappers of the WrapClient options passed to Init, a
\* later option outside an earlier one; the tracing decorator, then the
\* header decorator; the wrappers of the WrapClient options passed to
\* NewService, again a later option outside an earlier one; the base
\* client.  Within one option the wrappers are in list order.  (Options
\* before the last Client mutator wrapped a client that was replaced; a
\* Client mutator passed to Init replaces the decorators too.)  A Call
\* enters the layers in exactly this order.
C28_LayeringByApplicationTime ==
    /\ opts.Client =
         LayersOf(SelectSeq(SinceClient, AtInit))
           \o (IF LastClient = 0 \/ passed[LastClient].call = 0
               THEN <<Layer("TraceCall", NameAtNew), Layer("FromService", NameAtNew)>>
               ELSE <<>>)
           \o LayersOf(SelectSeq(SinceClient, AtNew))
           \o (IF LastClient = 0 THEN DefaultClient ELSE NewClient(passed[LastClient].m.v))
    /\ rpc.op = "Call" => Entered(rpc.tr) = rpc.via

\* NewService(WrapClient(w0), WrapClient(w1)): a Call enters the tracing
\* decorator, the header decorator, w1, w0 and the base client
C28_Witness ==
    /\ passed = PassedToNew(<<OptW("WrapClient", <<"w0">>), OptW("WrapClient", <<"w1">>)>>)
    /\ rpc.op = "Call"
    /\ Entered(rpc.tr) = <<Layer("TraceCall", DefaultName), Layer("FromService", DefaultName),
                           Layer("wrap", "w1"), Layer("wrap", "w0"),
                           Layer("client", "DefaultClient")>>

\* the other cases of C28: the one list WrapClient(w0, w1) is entered w0
\* first, and a WrapClient passed to Init is entered before the tracing
\* decorator
C28_ListAndInit ==
    /\ Len(passed) = 2
    /\ passed[1] = [call |-> 0, m |-> OptW("WrapClient", <<"w0", "w1">>)]
    /\ passed[2] = [call |-> 1, m |-> OptW("WrapClient", <<"w1">>)]
    /\ rpc.op = "Call"
    /\ rpc.via = opts.Client
    /\ Entered(rpc.tr) = <<Layer("wrap", "w1"), Layer("TraceCall", DefaultName),
                           Layer("FromService", DefaultName), Layer("wrap", "w0"),
                           Layer("wrap", "w1"), Layer("client", "DefaultClient")>>

\* ------------------------------------------------------------- C29
\* the fixed decorators among the layers of a client
Decorators(c) == SelectSeq(c, LAMBDA l : l.kind \in {"TraceCall", "FromService"})

\* C29: the two fixed decorators are put on the client once, by
\* NewService.  No Init call adds one; when the last Client(c) mutator
\* was passed to Init the service's client has no decorator, and is c
\* itself when nothing was passed after it; an operation issued through a
\* client without decorators starts no span and carries the caller's
\* metadata, no From-Service header added.
C29_DecoratorsOnlyAtNew ==
    /\ [][Len(Decorators(opts'.Client)) <= Len(Decorators(opts.Client))]_vars
    /\ [](Len(Decorators(opts.Client)) \in {0, 2})
    /\ []((LastClient # 0 /\ passed[LastClient].call > 0) =>
            /\ Decorators(opts.Client) = <<>>
            /\ LastClient = Len(passed) => opts.Client = NewClient(passed[LastClient].m.v))
    /\ []((rpc.op # "none" /\ Decorators(rpc.via) = <<>>) =>
            /\ rpc.md = rpc.md0
            /\ At(rpc.tr, "Tracer.Start", "TraceCall") = {}
            /\ \A k \in 1..Len(rpc.tr) : rpc.tr[k].kind \in {"wrap", "client"})

\* after NewService() and Init(Client(client2)) a Call issued without
\* metadata reached client2 directly, with no header and no span
C29_Witness ==
    /\ Len(passed) = 1
    /\ passed[1] = [call |-> 1, m |-> Opt("Client", 0, FALSE, "client2")]
    /\ opts.Client = NewClient("client2")
    /\ rpc.op = "Call"
    /\ rpc.via = opts.Client
    /\ rpc.md0 = <<>>
    /\ rpc.md = <<>>
    /\ Entered(rpc.tr) = NewClient("client2")

\* ------------------------------------------------------------- C30
\* C30: the value of the From-Service header is the name the server had
\* when NewService had run its options: the header decorator holds that
\* name from then on, an operation issued without a From-Service header
\* of its own carries it, and a Name(n) passed to a later Init changes what
\* Service.Name() returns and nothing in the decorator.
C30_HeaderNameCapturedAtNew ==
    /\ \A k \in 1..Len(opts.Client) :
         opts.Client[k].kind \in {"TraceCall", "FromService"} => opts.Client[k].name = NameAtNew
    /\ serverName[opts.Server] =
         IF Writes("Name") = {} THEN DefaultName ELSE passed[LastWrite("Name")].m.v
    /\ (rpc.op # "none" /\ Decorators(rpc.via) # <<>> /\ ~Get(rpc.md0, FromServiceKey)) =>
         /\ Get(rpc.md, FromServiceKey)
         /\ rpc.md[FromServiceKey] = NameAtNew

\* NewService(), then Init(Name(svc.a)), then a Call: Service.Name() is
\* svc.a and the Call carried the default name in its From-Service header
C30_Witness ==
    /\ Len(passed) = 1
    /\ passed[1] = [call |-> 1, m |-> Opt("Name", 0, FALSE, "svc.a")]
    /\ serverName[opts.Server] = "svc.a"
    /\ rpc.op = "Call"
    /\ rpc.via = opts.Client
    /\ rpc.md0 = <<>>
    /\ rpc.md = [k \in {FromServiceKey} |-> DefaultName]
    /\ DefaultName # "svc.a"

\* ------------------------------------------------------------- C31
CrossCutting == {"Registry", "Broker", "Transport"}

\* the instances a cross-cutting mutator calls Init on
Targets(op) == IF op = "Registry" THEN {"client", "server", "broker"} ELSE {"client", "server"}

\* the mutator that installs an instance of a kind, and the instance the
\* record starts with
KindField == [kind \in {"client", "server", "broker"} |->
                CASE kind = "client" -> "Client"
                  [] kind = "server" -> "Server"
                  [] kind = "broker" -> "Broker"]

KindDefault == [kind \in {"client", "server", "broker"} |->
                  CASE kind = "client" -> "DefaultClient"
                    [] kind = "server" -> DefaultServer
                    [] kind = "broker" -> DefaultBroker]

\* the instance of a kind the record holds when the k-th mutator of the
\* history runs: the one the last mutator of that kind before k installed
HeldAt(kind, k) ==
    LET ws == {j \in Writes(KindField[kind]) : j < k}
    IN  IF ws = {} THEN KindDefault[kind]
        ELSE passed[CHOOSE j \in ws : \A h \in ws : h <= j].m.v

\* the instance an Init call was made on: the constructed client, server or
\* broker inside whatever wraps it
Base(inst) == inst[Len(inst)].name

\* the instance x of a kind has received an Init carrying op(v)
Received(kind, x, op, v) ==
    \E n \in 1..Len(inits) :
      /\ inits[n].kind = kind
      /\ Base(inits[n].inst) = x
      /\ inits[n].opt = op
      /\ inits[n].arg = v

\* C31: an Init carrying Registry(r), Broker(b) or Transport(t) is received
\* by exactly the instances the record holds when that mutator runs: an
\* instance installed by a later Client, Server or Broker mutator does not
\* receive it, an instance installed before does.  So the record's client
\* and server (and, for the registry, its broker) have received an Init
\* carrying the record's final registry, broker or transport whenever no
\* mutator installed a client, server or broker after the last mutator
\* that set it; when one did, nothing is guaranteed (C31_Witness).
C31_PropagationToHeldInstances ==
    /\ \A n \in 1..Len(inits) :
         /\ inits[n].opt \in CrossCutting
         /\ inits[n].kind \in Targets(inits[n].opt)
         /\ \E k \in Writes(inits[n].opt) :
              /\ passed[k].m.v = inits[n].arg
              /\ HeldAt(inits[n].kind, k) = Base(inits[n].inst)
    /\ \A k \in 1..Len(passed) :
         passed[k].m.op \in CrossCutting =>
           \A kind \in Targets(passed[k].m.op) :
             Received(kind, HeldAt(kind, k), passed[k].m.op, passed[k].m.v)
    /\ \A F \in CrossCutting :
         Writes(F) # {} =>
           \A kind \in Targets(F) :
             (\A j \in Writes(KindField[kind]) : j <= LastWrite(F)) =>
               Received(kind, HeldAt(kind, Len(passed) + 1), F, opts[F])
    /\ Base(opts.Client) = HeldAt("client", Len(passed) + 1)
    /\ opts.Server = HeldAt("server", Len(passed) + 1)
    /\ opts.Broker = HeldAt("broker", Len(passed) + 1)

\* NewService(Registry(registry2), Client(client2)): the record holds
\* registry2 and client2, the Init carrying registry2 went to the default
\* client, and client2 has received none
C31_Witness ==
    /\ passed = PassedToNew(<<Opt("Registry", 0, FALSE, "registry2"),
                              Opt("Client", 0, FALSE, "client2")>>)
    /\ opts.Registry = "registry2"
    /\ Base(opts.Client) = "client2"
    /\ Received("client", "DefaultClient", "Registry", "registry2")
    /\ ~Received("client", "client2", "Registry", "registry2")
    /\ \A n \in 1..Len(inits) : Base(inits[n].inst) # "client2"

\* the other order, NewService(Client(client2), Registry(registry2)):
\* client2 has received the Init carrying registry2
C31_ClientFirst ==
    /\ passed = PassedToNew(<<Opt("Client", 0, FALSE, "client2"),
                              Opt("Registry", 0, FALSE, "registry2")>>)
    /\ Received("client", "client2", "Registry", "registry2")

\* a later Server and a later Broker are missed in the same way
C31_ServerAndBrokerMissed ==
    \E kind \in {"server", "broker"} :
      /\ Len(passed) = 2
      /\ passed[1].m = Opt("Registry", 0, FALSE, "registry2")
      /\ passed[2].m.op = KindField[kind]
      /\ passed[2].m.v # KindDefault[kind]
      /\ ~Received(kind, passed[2].m.v, "Registry", "registry2")

=============================================================================
